---- MODULE Spec2Model ----
(***************************************************************************)
(* Credential and account lifecycle of code-rs/core:                       *)
(*   - the primary credential store (auth/storage.rs): File, Keyring,      *)
(*     Auto and Ephemeral backends over auth.json, the OS keyring and a    *)
(*     process-wide map;                                                   *)
(*   - the account registry (auth_accounts.rs): upsert / remove /          *)
(*     set_active over the stored AccountsFile.                            *)
(* Option<T> is modelled as a sequence: <<>> is None, <<x>> is Some(x).    *)
(***************************************************************************)
EXTENDS Integers, Sequences, FiniteSets, TLC

VARIABLES
    mode,       \* AuthCredentialsStoreMode the store was created with
    fileW,      \* contents of {code_home}/auth.json (the write path)
    fileL,      \* contents of auth.json at the alternate (legacy) read location
    kr,         \* keyring entry under (KEYRING_SERVICE, compute_store_key(code_home))
    eph,        \* EPHEMERAL_AUTH_STORE[compute_store_key(code_home)]
    last,       \* the most recent store call: inputs, result and the store before it
    prev,       \* the call before `last`
    reg,        \* contents of auth_accounts.json (<<>>: no file), as JSON
    clock,      \* wall clock read by now()
    issued,     \* number of account ids handed out so far by next_id()
    calls,      \* number of registry calls made so far
    lastCall,   \* the most recent registry call: inputs, result, registry before it
    assigned,   \* the ids of all accounts the registry has ever stored
    acctEnv,    \* the [accounts] table of config.toml and the state of the keyring service
    acctStore,  \* the account store: files by path, keyring entry, ephemeral map entry
    lastSt,     \* the most recent call on the account store
    oaMgr,      \* AuthorizationManager: the client id and credentials it holds
    oaLast,     \* OAuthPersistor: last_credentials
    oaStore,    \* MCP OAuth store: mode, keyring entry, .credentials.json
    oaNow,      \* SystemTime::now() in milliseconds since the epoch
    oaCall,     \* the most recent OAuthPersistor call
    oaProc,     \* concurrent callers of one OAuthPersistor: position and locals
    oaGuard,    \* the callers holding the guard of the last_credentials mutex
    regTasks,   \* tasks calling the account registry concurrently: position and locals
    order,      \* ChatWidget: the counters that history order keys are made from
    orderKeys,  \* the keys next_internal_key has returned so far, in order
    mcpAccess,  \* McpAccessState of the session
    mcpLast     \* the most recent server_access_for_turn query and its decision

storeVars == <<mode, fileW, fileL, kr, eph, last, prev>>
acctVars  == <<reg, clock, issued, calls, lastCall, assigned, regTasks>>
acctStorageVars == <<acctEnv, acctStore, lastSt>>
oauthProcVars == <<oaProc, oaGuard>>
oauthVars == <<oaMgr, oaLast, oaStore, oaNow, oaCall, oaProc, oaGuard>>
sessionVars == <<order, orderKeys, mcpAccess, mcpLast>>
vars      == <<mode, fileW, fileL, kr, eph, last, prev, reg, clock, issued, calls, lastCall,
               assigned, acctEnv, acctStore, lastSt, oaMgr, oaLast, oaStore, oaNow, oaCall,
               oaProc, oaGuard, regTasks, order, orderKeys, mcpAccess, mcpLast>>

None == <<>>
Some(x) == <<x>>

(***************************************************************************)
(* Bounds                                                                  *)
(***************************************************************************)
\* number of distinct credential sets that callers save
NumCreds == 2

(***************************************************************************)
(* AuthDotJson and its JSON forms                                          *)
(***************************************************************************)
\* The credential sets: odd ones are API-key logins, even ones carry tokens;
\* last_refresh is set on some and absent on others.
AuthDotJson(i) ==
    [ auth_mode      |-> IF i % 2 = 1 THEN Some("ApiKey") ELSE Some("ChatGPT"),
      openai_api_key |-> IF i % 2 = 1 THEN Some(i) ELSE None,
      tokens         |-> IF i % 2 = 0 THEN Some(i) ELSE None,
      last_refresh   |-> IF i % 3 = 0 THEN None ELSE Some(i) ]

Creds == 1..NumCreds

\* A JSON value of an optional field: null, or the value.
JsonOpt(o) == IF o = None THEN <<"null">> ELSE <<"value", o[1]>>
OptJson(j) == IF j[1] = "null" THEN None ELSE Some(j[2])

\* The JSON object of an AuthDotJson: one member per field.
to_value(auth) ==
    << JsonOpt(auth.auth_mode), JsonOpt(auth.openai_api_key),
       JsonOpt(auth.tokens), JsonOpt(auth.last_refresh) >>

\* serde_json::to_string: the compact text kept in the keyring.
to_string(auth) == [fmt |-> "compact", doc |-> to_value(auth)]

\* serde_json::to_string_pretty: the indented text written to auth.json.
to_string_pretty(auth) == [fmt |-> "pretty", doc |-> to_value(auth)]

\* Text that is not the JSON of an AuthDotJson (e.g. the word "stale").
Garbage == [fmt |-> "garbage", doc |-> <<>>]

\* serde_json::from_str: whitespace is irrelevant; garbage does not parse.
from_str(text) ==
    IF text.fmt = "garbage"
    THEN [ok |-> FALSE, val |-> None]
    ELSE [ok |-> TRUE,
          val |-> Some([ auth_mode      |-> OptJson(text.doc[1]),
                         openai_api_key |-> OptJson(text.doc[2]),
                         tokens         |-> OptJson(text.doc[3]),
                         last_refresh   |-> OptJson(text.doc[4]) ])]

(***************************************************************************)
(* Results: io::Result<T>                                                  *)
(***************************************************************************)
Ok(x)  == [tag |-> "Ok", val |-> Some(x), err |-> ""]
OkUnit == [tag |-> "Ok", val |-> None, err |-> ""]
Err(e) == [tag |-> "Err", val |-> None, err |-> e]
IsOk(r) == r.tag = "Ok"

\* A store: the two auth.json locations, the keyring entry, the ephemeral map entry.
Store(w, l, k, e) == [w |-> w, l |-> l, k |-> k, e |-> e]
CurStore == Store(fileW, fileL, kr, eph)

\* An operation's outcome: its result and the store it leaves.
Out(r, s) == [res |-> r, s |-> s]

(***************************************************************************)
(* Files                                                                   *)
(***************************************************************************)
\* crate::config::resolve_code_path_for_read: the file under code_home when it
\* exists, otherwise the legacy location when the file exists there, otherwise
\* the path under code_home.  "W" is get_auth_file(code_home).
resolve_code_path_for_read(s) ==
    IF s.w # None THEN "W" ELSE IF s.l # None THEN "L" ELSE "W"

FileAt(s, path) == IF path = "W" THEN s.w ELSE s.l

\* delete_file_if_exists on one path; io: remove_file fails with an error
\* other than NotFound.
delete_file_if_exists(s, path, io) ==
    IF FileAt(s, path) = None THEN Out(Ok(FALSE), s)
    ELSE IF io THEN Out(Err("io"), s)
    ELSE Out(Ok(TRUE), IF path = "W" THEN [s EXCEPT !.w = None]
                                      ELSE [s EXCEPT !.l = None])

delete_auth_files_if_exists(s, io) ==
    LET read_path == resolve_code_path_for_read(s)
        first == delete_file_if_exists(s, "W", io)
    IN  IF ~IsOk(first.res) THEN first
        ELSE LET second == IF read_path # "W"
                            THEN delete_file_if_exists(first.s, read_path, io)
                            ELSE Out(Ok(FALSE), first.s)
             IN  IF ~IsOk(second.res) THEN second
                 ELSE Out(Ok(first.res.val[1] \/ second.res.val[1]), second.s)

(***************************************************************************)
(* FileAuthStorage                                                         *)
(***************************************************************************)
\* try_read_auth_json + load: a missing file is Ok(None); a file that does
\* not parse is an error.
FileLoad(s) ==
    LET auth_file == resolve_code_path_for_read(s)
        contents  == FileAt(s, auth_file)
    IN  IF contents = None THEN Out(Ok(None), s)
        ELSE LET parsed == from_str(contents[1])
             IN  IF parsed.ok THEN Out(Ok(parsed.val), s)
                 ELSE Out(Err("parse"), s)

\* save: whole-file overwrite of get_auth_file(code_home); io: creating the
\* directory or opening the file fails.
FileSave(s, auth, io) ==
    IF io THEN Out(Err("io"), s)
    ELSE Out(OkUnit, [s EXCEPT !.w = Some(to_string_pretty(auth))])

FileDelete(s, io) == delete_auth_files_if_exists(s, io)

(***************************************************************************)
(* KeyringAuthStorage; kerr: the KeyringStore call of this operation fails *)
(***************************************************************************)
load_from_keyring(s, kerr) ==
    IF kerr THEN Out(Err("keyring"), s)
    ELSE IF s.k = None THEN Out(Ok(None), s)
    ELSE LET parsed == from_str(s.k[1])
         IN  IF parsed.ok THEN Out(Ok(parsed.val), s)
             ELSE Out(Err("parse"), s)

save_to_keyring(s, value, kerr) ==
    IF kerr THEN Out(Err("keyring"), s)
    ELSE Out(OkUnit, [s EXCEPT !.k = Some(value)])

KeyringLoad(s, kerr) == load_from_keyring(s, kerr)

\* (mutant) the fallback file is left in place after the keyring write.
KeyringSave_KeepsFallbackFile(s, auth, kerr, io) ==
    save_to_keyring(s, to_string(auth), kerr)

\* (mutant) a failed keyring write is made good by writing auth.json.
KeyringSave_FallsBackToFile(s, auth, kerr, io) ==
    LET saved == save_to_keyring(s, to_string(auth), kerr)
    IN  IF ~IsOk(saved.res) THEN FileSave(s, auth, io)
        ELSE Out(OkUnit, delete_auth_files_if_exists(saved.s, io).s)

\* save: the keyring write decides the result; the removal of the fallback
\* file afterwards is logged on failure and never fails the save.
KeyringSave(s, auth, kerr, io) ==
    LET saved == save_to_keyring(s, to_string(auth), kerr)
    IN  IF ~IsOk(saved.res) THEN saved
        ELSE Out(OkUnit, delete_auth_files_if_exists(saved.s, io).s)

\* delete: the keyring entry first (an error returns at once), then the files.
KeyringDelete(s, kerr, io) ==
    IF kerr THEN Out(Err("keyring"), s)
    ELSE LET keyring_removed == s.k # None
             files == delete_auth_files_if_exists([s EXCEPT !.k = None], io)
         IN  IF ~IsOk(files.res) THEN files
             ELSE Out(Ok(keyring_removed \/ files.res.val[1]), files.s)

(***************************************************************************)
(* AutoAuthStorage                                                         *)
(***************************************************************************)
\* (mutant) a keyring failure aborts the read instead of falling back.
AutoLoad_KeyringErrorAborts(s, kerr) ==
    LET k == KeyringLoad(s, kerr)
    IN  IF ~IsOk(k.res) \/ k.res.val[1] # None THEN k
        ELSE FileLoad(s)

AutoLoad(s, kerr) ==
    LET k == KeyringLoad(s, kerr)
    IN  IF IsOk(k.res) /\ k.res.val[1] # None THEN k
        ELSE FileLoad(s)

\* (mutant) a keyring failure is swallowed without writing the file.
AutoSave_SilentNoOp(s, auth, kerr, io) ==
    LET k == KeyringSave(s, auth, kerr, io)
    IN  Out(OkUnit, k.s)

AutoSave(s, auth, kerr, io) ==
    LET k == KeyringSave(s, auth, kerr, io)
    IN  IF IsOk(k.res) THEN k
        ELSE FileSave(s, auth, io)

\* "Keyring storage deletes fallback files as well."
AutoDelete(s, kerr, io) == KeyringDelete(s, kerr, io)

(***************************************************************************)
(* EphemeralAuthStorage: the process-wide map, no file or keyring access   *)
(***************************************************************************)
EphemeralLoad(s) == Out(Ok(s.e), s)

\* (mutant) the saved value is written to auth.json as well.
EphemeralSave_WritesFile(s, auth) ==
    Out(OkUnit, FileSave([s EXCEPT !.e = Some(auth)], auth, FALSE).s)

EphemeralSave(s, auth) == Out(OkUnit, [s EXCEPT !.e = Some(auth)])

EphemeralDelete(s) == Out(Ok(s.e # None), [s EXCEPT !.e = None])

(***************************************************************************)
(* create_auth_storage: the backend selected by the mode                   *)
(***************************************************************************)
Modes == {"File", "Keyring", "Auto", "Ephemeral"}

BackendLoad(m, s, kerr) ==
    CASE m = "File"      -> FileLoad(s)
      [] m = "Keyring"   -> KeyringLoad(s, kerr)
      [] m = "Auto"      -> AutoLoad(s, kerr)
      [] m = "Ephemeral" -> EphemeralLoad(s)

BackendSave(m, s, auth, kerr, io) ==
    CASE m = "File"      -> FileSave(s, auth, io)
      [] m = "Keyring"   -> KeyringSave(s, auth, kerr, io)
      [] m = "Auto"      -> AutoSave(s, auth, kerr, io)
      [] m = "Ephemeral" -> EphemeralSave(s, auth)

BackendDelete(m, s, kerr, io) ==
    CASE m = "File"      -> FileDelete(s, io)
      [] m = "Keyring"   -> KeyringDelete(s, kerr, io)
      [] m = "Auto"      -> AutoDelete(s, kerr, io)
      [] m = "Ephemeral" -> EphemeralDelete(s)

\* The keyring can fail only where it is called, the file system only where
\* a file is written or removed.
KeyringOutcomes(m) == IF m \in {"Keyring", "Auto"} THEN BOOLEAN ELSE {FALSE}
FsOutcomes(m)      == IF m = "Ephemeral" THEN {FALSE} ELSE BOOLEAN

(***************************************************************************)
(* The store's calls                                                       *)
(***************************************************************************)
NoCall == [op |-> "none", arg |-> 0, kerr |-> FALSE, io |-> FALSE,
           res |-> OkUnit, pre |-> Store(None, None, None, None)]

Call(op, arg, kerr, io, res, pre) ==
    [op |-> op, arg |-> arg, kerr |-> kerr, io |-> io, res |-> res, pre |-> pre]

Apply(op, arg, kerr, io, out) ==
    /\ fileW' = out.s.w
    /\ fileL' = out.s.l
    /\ kr'    = out.s.k
    /\ eph'   = out.s.e
    /\ last'  = Call(op, arg, kerr, io, out.res, CurStore)
    /\ prev'  = last
    /\ UNCHANGED <<mode, acctVars, acctStorageVars, oauthVars, sessionVars>>

Load ==
    \E kerr \in KeyringOutcomes(mode) :
        Apply("load", 0, kerr, FALSE, BackendLoad(mode, CurStore, kerr))

Save ==
    \E i \in Creds, kerr \in KeyringOutcomes(mode), io \in FsOutcomes(mode) :
        Apply("save", i, kerr, io, BackendSave(mode, CurStore, AuthDotJson(i), kerr, io))

Delete ==
    \E kerr \in KeyringOutcomes(mode), io \in FsOutcomes(mode) :
        Apply("delete", 0, kerr, io, BackendDelete(mode, CurStore, kerr, io))

\* What may already lie in auth.json and in the keyring when the store is
\* created: nothing, a credential set written by an earlier run, or (files
\* only) text that does not parse.  The ephemeral map of a new process is empty.
FileContents == {None, Some(Garbage)} \cup {Some(to_string_pretty(AuthDotJson(i))) : i \in Creds}
LegacyContents == {None, Some(to_string_pretty(AuthDotJson(1)))}
KeyringContents == {None} \cup {Some(to_string(AuthDotJson(i))) : i \in Creds}

StoreInit ==
    /\ mode \in Modes
    /\ fileW \in FileContents
    /\ fileL \in LegacyContents
    /\ kr \in KeyringContents
    /\ eph = None
    /\ last = NoCall
    /\ prev = NoCall

StoreNext == Load \/ Save \/ Delete

(***************************************************************************)
(* Account registry (auth_accounts.rs)                                     *)
(***************************************************************************)
\* number of registry calls in a run
MaxCalls == 2

Min(S) == CHOOSE x \in S : \A y \in S : x <= y

\* E-mail addresses are sequences of characters.
RECURSIVE TrimStart(_)
TrimStart(e) == IF e # <<>> /\ Head(e) = " " THEN TrimStart(Tail(e)) ELSE e

RECURSIVE TrimEnd(_)
TrimEnd(e) ==
    IF e # <<>> /\ e[Len(e)] = " " THEN TrimEnd(SubSeq(e, 1, Len(e) - 1)) ELSE e

trim(e) == TrimEnd(TrimStart(e))

AsciiLower(c) == CASE c = "A" -> "a" [] c = "B" -> "b" [] c = "X" -> "x" [] OTHER -> c

to_ascii_lowercase(e) == [i \in 1..Len(e) |-> AsciiLower(e[i])]

normalize_email(email) == to_ascii_lowercase(trim(email))

\* TokenData: the identity token's e-mail, the access token, the account id.
TokenData(account_id, email, access) ==
    [id_token |-> [email |-> email], access_token |-> access, account_id |-> account_id]

\* The token sets callers log in with: one identity in two spellings, the
\* same account under another e-mail, the same e-mail under another
\* account, and identities lacking the e-mail or the account id.
TokenSets ==
    { TokenData(Some("acct-1"), Some(<<"A", "x">>), "t1"),
      TokenData(Some("acct-1"), Some(<<" ", "a", "X", " ">>), "t2"),
      TokenData(Some("acct-1"), Some(<<"b", "x">>), "t3"),
      TokenData(Some("acct-2"), Some(<<"A", "x">>), "t4"),
      TokenData(Some("acct-1"), None, "t5"),
      TokenData(None, Some(<<"A", "x">>), "t6") }

ApiKeys == {"sk-1", "sk-2"}
Labels == {None, Some("work")}

StoredAccount(id, m, label, api_key, tokens, last_refresh, created_at, last_used_at) ==
    [ id |-> id, mode |-> m, label |-> label, openai_api_key |-> api_key,
      tokens |-> tokens, last_refresh |-> last_refresh,
      created_at |-> created_at, last_used_at |-> last_used_at ]

AccountsFile(active, accounts) ==
    [version |-> 1, active_account_id |-> active, accounts |-> accounts]

\* AccountsFile::default()
DefaultAccountsFile == AccountsFile(None, <<>>)

\* serde: active_account_id is left out when None, accounts when empty.
accounts_to_json(data) ==
    [ version |-> data.version,
      active_account_id |-> data.active_account_id,
      accounts |-> IF data.accounts = <<>> THEN None ELSE Some(data.accounts) ]

\* serde: a missing accounts member is the empty list.
accounts_from_json(json) ==
    [ version |-> json.version,
      active_account_id |-> json.active_account_id,
      accounts |-> IF json.accounts = None THEN <<>> ELSE json.accounts[1] ]

\* FileAccountsStorage::load over the default paths: the first read path
\* that exists, the default AccountsFile when none does.
load_accounts_file(file) ==
    IF file = None THEN DefaultAccountsFile ELSE accounts_from_json(file[1])

\* FileAccountsStorage::save: whole-file overwrite of the write path.
write_accounts_file(data) == Some(accounts_to_json(data))

\* AuthMode::is_chatgpt
is_chatgpt(m) == m \in {"ChatGPT", "ChatgptAuthTokens"}

\* (mutant) the account id alone decides the match.
match_chatgpt_account_ByAccountIdOnly(existing, tokens) ==
    /\ is_chatgpt(existing.mode)
    /\ existing.tokens # None
    /\ existing.tokens[1].account_id # None
    /\ tokens.account_id # None
    /\ existing.tokens[1].account_id[1] = tokens.account_id[1]

\* (mutant) two missing e-mails count as equal e-mails.
match_chatgpt_account_MissingEmailsMatch(existing, tokens) ==
    /\ is_chatgpt(existing.mode)
    /\ existing.tokens # None
    /\ existing.tokens[1].account_id # None
    /\ tokens.account_id # None
    /\ existing.tokens[1].account_id[1] = tokens.account_id[1]
    /\ IF existing.tokens[1].id_token.email = None \/ tokens.id_token.email = None
       THEN existing.tokens[1].id_token.email = tokens.id_token.email
       ELSE normalize_email(existing.tokens[1].id_token.email[1])
              = normalize_email(tokens.id_token.email[1])

match_chatgpt_account(existing, tokens) ==
    IF ~is_chatgpt(existing.mode) THEN FALSE
    ELSE IF existing.tokens = None THEN FALSE
    ELSE LET existing_tokens == existing.tokens[1]
             account_id_matches ==
                 /\ existing_tokens.account_id # None
                 /\ tokens.account_id # None
                 /\ existing_tokens.account_id[1] = tokens.account_id[1]
             email_matches ==
                 /\ existing_tokens.id_token.email # None
                 /\ tokens.id_token.email # None
                 /\ normalize_email(existing_tokens.id_token.email[1])
                      = normalize_email(tokens.id_token.email[1])
         IN  account_id_matches /\ email_matches

\* (mutant) the stored account's mode is not looked at.
match_api_key_account_IgnoresMode(existing, api_key) ==
    /\ existing.openai_api_key # None
    /\ existing.openai_api_key[1] = api_key

match_api_key_account(existing, api_key) ==
    /\ existing.mode = "ApiKey"
    /\ existing.openai_api_key # None
    /\ existing.openai_api_key[1] = api_key

\* Iterator::position: the index of the first account matching, 0 for None.
\* `matches' holds, per account in order, the closure's verdict.
Position(matches) ==
    LET hits == {i \in 1..Len(matches) : matches[i]}
    IN  IF hits = {} THEN 0 ELSE Min(hits)

\* The k-th reading of now() within a call entered at time t0, the clock
\* having advanced by dt between the first reading and the later ones.
Now(t0, dt, k) == IF k >= 2 THEN t0 + dt ELSE t0

\* (mutant) created_at is stamped on every touch.
touch_account_RestampsCreatedAt(account, used, t0, dt, reads) ==
    LET stamped == [account EXCEPT !.created_at = Some(Now(t0, dt, reads + 1))]
    IN  IF used THEN [stamped EXCEPT !.last_used_at = Some(Now(t0, dt, reads + 2))]
        ELSE stamped

\* touch_account, `reads` readings of now() having been made before it.
touch_account(account, used, t0, dt, reads) ==
    LET stamped == IF account.created_at = None
                   THEN [account EXCEPT !.created_at = Some(Now(t0, dt, reads + 1))]
                   ELSE account
        n == IF account.created_at = None THEN reads + 1 ELSE reads
    IN  IF used THEN [stamped EXCEPT !.last_used_at = Some(Now(t0, dt, n + 1))]
        ELSE stamped

\* (mutant) the incoming label replaces the stored one also when absent.
merge_account_OverwritesLabel(old, new_account) ==
    [ old EXCEPT
        !.label = new_account.label,
        !.last_refresh = IF new_account.last_refresh # None
                         THEN new_account.last_refresh ELSE @,
        !.tokens = IF new_account.tokens # None THEN new_account.tokens ELSE @,
        !.openai_api_key = IF new_account.openai_api_key # None
                           THEN new_account.openai_api_key ELSE @,
        !.last_used_at = IF new_account.last_used_at # None
                         THEN new_account.last_used_at ELSE @ ]

\* The merge of upsert_account: the fields present on the incoming record
\* replace the stored ones.
merge_account(old, new_account) ==
    [ old EXCEPT
        !.label = IF new_account.label # None THEN new_account.label ELSE @,
        !.last_refresh = IF new_account.last_refresh # None
                         THEN new_account.last_refresh ELSE @,
        !.tokens = IF new_account.tokens # None THEN new_account.tokens ELSE @,
        !.openai_api_key = IF new_account.openai_api_key # None
                           THEN new_account.openai_api_key ELSE @,
        !.last_used_at = IF new_account.last_used_at # None
                         THEN new_account.last_used_at ELSE @ ]

\* the ids of the accounts of an AccountsFile
AccountIds(data) == {data.accounts[i].id : i \in 1..Len(data.accounts)}

\* (mutant) the merged account is appended and the matched one is kept too.
upsert_account_AppendsMerged(data, new_account, t0, dt) ==
    LET M(acc) == IF is_chatgpt(new_account.mode)
                  THEN match_chatgpt_account(acc, new_account.tokens[1])
                  ELSE match_api_key_account(acc, new_account.openai_api_key[1])
        existing_idx == Position([i \in 1..Len(data.accounts) |-> M(data.accounts[i])])
        account == IF existing_idx # 0
                   THEN merge_account(data.accounts[existing_idx], new_account)
                   ELSE [new_account EXCEPT !.created_at = Some(Now(t0, dt, 1))]
    IN  [ idx |-> existing_idx,
          data |-> [data EXCEPT !.accounts = Append(@, account)],
          stored |-> account ]

\* upsert_account: the index merged into (0 when appended), the new
\* AccountsFile and the stored account.
upsert_account(data, new_account, t0, dt) ==
    LET existing_idx ==
            IF is_chatgpt(new_account.mode)
            THEN IF new_account.tokens = None THEN 0
                 ELSE LET M(acc) == match_chatgpt_account(acc, new_account.tokens[1])
                      IN  Position([i \in 1..Len(data.accounts) |-> M(data.accounts[i])])
            ELSE IF new_account.openai_api_key = None THEN 0
                 ELSE LET M(acc) == match_api_key_account(acc, new_account.openai_api_key[1])
                      IN  Position([i \in 1..Len(data.accounts) |-> M(data.accounts[i])])
    IN  IF existing_idx # 0
        THEN LET account == merge_account(data.accounts[existing_idx], new_account)
             IN  [ idx |-> existing_idx,
                   data |-> [data EXCEPT !.accounts[existing_idx] = account],
                   stored |-> account ]
        ELSE LET created ==
                     IF new_account.created_at = None
                     THEN [new_account EXCEPT !.created_at = Some(Now(t0, dt, 1))]
                     ELSE new_account
             IN  [ idx |-> 0,
                   data |-> [data EXCEPT !.accounts = Append(@, created)],
                   stored |-> created ]

\* The tail shared by both upsert entry points: make the account active and
\* stamp it, leaving the AccountsFile to save and the account to return.
make_active_step(up, make_active, t0, dt) ==
    IF ~make_active THEN [data |-> up.data, stored |-> up.stored]
    ELSE LET reads == IF up.idx = 0 THEN 1 ELSE 0
             M(acc) == acc.id = up.stored.id
             pos == Position([i \in 1..Len(up.data.accounts) |-> M(up.data.accounts[i])])
             activated == [up.data EXCEPT !.active_account_id = Some(up.stored.id)]
         IN  IF pos = 0 THEN [data |-> activated, stored |-> up.stored]
             ELSE LET touched == touch_account(activated.accounts[pos], TRUE, t0, dt, reads)
                  IN  [ data |-> [activated EXCEPT !.accounts[pos] = touched],
                        stored |-> touched ]

\* next_id: a fresh UUID; ids are numbered in the order they are generated.
next_id == issued + 1

\* A registry call: its inputs (the incoming record of an upsert, the id of a
\* remove or set_active), the AccountsFile it loaded, what upsert_account
\* returned, and the account it returned.
RegistryCall(op, new_account, make_active, id, before, up, ret) ==
    [ op |-> op, new |-> new_account, make_active |-> make_active, id |-> id,
      before |-> before, up |-> up, ret |-> ret ]

NoUpsert == [idx |-> 0, data |-> DefaultAccountsFile, stored |-> None]

NoRegistryCall ==
    RegistryCall("none", None, FALSE, None, DefaultAccountsFile, NoUpsert, None)

\* The clock after a call entered at t0: the later reading when the call
\* read now() twice.
ClockAfter(t0, dt, twoReads) == IF twoReads THEN t0 + dt ELSE t0

Upsert(op, new_account, make_active, dt) ==
    LET t0     == clock + 1
        data   == load_accounts_file(reg)
        up     == upsert_account(data, new_account, t0, dt)
        final  == make_active_step(up, make_active, t0, dt)
        two    == make_active /\ (up.idx = 0 \/ up.stored.created_at = None)
    IN  /\ calls < MaxCalls
        /\ reg' = write_accounts_file(final.data)
        /\ clock' = ClockAfter(t0, dt, two)
        /\ issued' = issued + 1
        /\ calls' = calls + 1
        /\ lastCall' = RegistryCall(op, Some(new_account), make_active, None, data,
                                    [up EXCEPT !.stored = Some(@)], Some(final.stored))
        /\ assigned' = assigned \cup AccountIds(final.data)
        /\ UNCHANGED <<regTasks, storeVars, acctStorageVars, oauthVars, sessionVars>>

upsert_api_key_account ==
    \E api_key \in ApiKeys, label \in Labels, make_active \in BOOLEAN :
      \E dt \in IF make_active THEN {0, 1} ELSE {0} :
        Upsert("upsert_api_key",
               StoredAccount(next_id, "ApiKey", label, Some(api_key), None, None, None, None),
               make_active, dt)

upsert_chatgpt_account ==
    \E tokens \in TokenSets, label \in Labels, make_active \in BOOLEAN :
      \E dt \in IF make_active THEN {0, 1} ELSE {0} :
        Upsert("upsert_chatgpt",
               StoredAccount(next_id, "ChatGPT", label, None, Some(tokens),
                             Some(clock + 1), None, None),
               make_active, dt)

\* The ids callers pass: those of the accounts stored now or earlier, and one
\* that never named an account.
UnknownId == 999

IdArgs == assigned \cup {UnknownId}

\* (mutant) the active account is forgotten on every removal.
remove_account_in_AlwaysClearsActive(file, account_id) ==
    LET data == load_accounts_file(file)
        M(acc) == acc.id = account_id
        pos == Position([i \in 1..Len(data.accounts) |-> M(data.accounts[i])])
        kept == IF pos = 0 THEN data.accounts
                ELSE SubSeq(data.accounts, 1, pos - 1)
                       \o SubSeq(data.accounts, pos + 1, Len(data.accounts))
        final == [data EXCEPT !.accounts = kept, !.active_account_id = None]
    IN  [ before |-> data,
          ret |-> IF pos = 0 THEN None ELSE Some(data.accounts[pos]),
          data |-> final,
          file |-> write_accounts_file(final) ]

\* (mutant) nothing is saved when no account was removed.
remove_account_in_SavesOnlyOnRemoval(file, account_id) ==
    LET data == load_accounts_file(file)
        M(acc) == acc.id = account_id
        pos == Position([i \in 1..Len(data.accounts) |-> M(data.accounts[i])])
        kept == IF pos = 0 THEN data.accounts
                ELSE SubSeq(data.accounts, 1, pos - 1)
                       \o SubSeq(data.accounts, pos + 1, Len(data.accounts))
        active == IF data.active_account_id = Some(account_id)
                  THEN None ELSE data.active_account_id
        final == [data EXCEPT !.accounts = kept, !.active_account_id = active]
    IN  [ before |-> data,
          ret |-> IF pos = 0 THEN None ELSE Some(data.accounts[pos]),
          data |-> final,
          file |-> IF pos = 0 THEN file ELSE write_accounts_file(final) ]

\* remove_account on the stored file: the AccountsFile loaded, the account
\* returned, the AccountsFile saved and the file it leaves.
remove_account_in(file, account_id) ==
    LET data == load_accounts_file(file)
        M(acc) == acc.id = account_id
        pos == Position([i \in 1..Len(data.accounts) |-> M(data.accounts[i])])
        removed == IF pos = 0 THEN None ELSE Some(data.accounts[pos])
        kept == IF pos = 0 THEN data.accounts
                ELSE SubSeq(data.accounts, 1, pos - 1)
                       \o SubSeq(data.accounts, pos + 1, Len(data.accounts))
        active == IF data.active_account_id = Some(account_id)
                  THEN None ELSE data.active_account_id
        final == [data EXCEPT !.accounts = kept, !.active_account_id = active]
    IN  [ before |-> data, ret |-> removed, data |-> final,
          file |-> write_accounts_file(final) ]

remove_account ==
    \E account_id \in IdArgs :
        LET call == remove_account_in(reg, account_id)
        IN  /\ calls < MaxCalls
            /\ reg' = call.file
            /\ clock' = clock + 1
            /\ calls' = calls + 1
            /\ lastCall' = RegistryCall("remove", None, FALSE, Some(account_id),
                                        call.before, NoUpsert, call.ret)
            /\ assigned' = assigned \cup AccountIds(call.data)
            /\ UNCHANGED <<regTasks, issued, storeVars, acctStorageVars, oauthVars, sessionVars>>

\* (mutant) an id that names no stored account is not made active.
set_active_account_id_in_ValidatesId(file, account_id, t0, dt) ==
    LET data == load_accounts_file(file)
        M(acc) == account_id # None /\ acc.id = account_id[1]
        pos == Position([i \in 1..Len(data.accounts) |-> M(data.accounts[i])])
        activated == IF pos = 0 /\ account_id # None THEN data
                     ELSE [data EXCEPT !.active_account_id = account_id]
        touched == touch_account(activated.accounts[pos], TRUE, t0, dt, 0)
        final == IF pos = 0 THEN activated
                 ELSE [activated EXCEPT !.accounts[pos] = touched]
    IN  [ before |-> data,
          ret |-> IF pos = 0 THEN None ELSE Some(touched),
          data |-> final,
          two |-> pos # 0 /\ data.accounts[pos].created_at = None,
          file |-> write_accounts_file(final) ]

\* set_active_account_id on the stored file: the AccountsFile loaded, the
\* account returned, the AccountsFile saved, whether now() was read twice,
\* and the file it leaves.
set_active_account_id_in(file, account_id, t0, dt) ==
    LET data == load_accounts_file(file)
        activated == [data EXCEPT !.active_account_id = account_id]
        M(acc) == account_id # None /\ acc.id = account_id[1]
        pos == Position([i \in 1..Len(activated.accounts) |-> M(activated.accounts[i])])
        touched == touch_account(activated.accounts[pos], TRUE, t0, dt, 0)
        final == IF pos = 0 THEN activated
                 ELSE [activated EXCEPT !.accounts[pos] = touched]
    IN  [ before |-> data,
          ret |-> IF pos = 0 THEN None ELSE Some(touched),
          data |-> final,
          two |-> pos # 0 /\ activated.accounts[pos].created_at = None,
          file |-> write_accounts_file(final) ]

set_active_account_id ==
    \E account_id \in {None} \cup {Some(i) : i \in IdArgs}, dt \in {0, 1} :
        LET t0 == clock + 1
            call == set_active_account_id_in(reg, account_id, t0, dt)
        IN  /\ calls < MaxCalls
            /\ (dt = 1 => call.two)
            /\ reg' = call.file
            /\ clock' = ClockAfter(t0, dt, call.two)
            /\ calls' = calls + 1
            /\ lastCall' = RegistryCall("set_active", None, FALSE, account_id,
                                        call.before, NoUpsert, call.ret)
            /\ assigned' = assigned \cup AccountIds(call.data)
            /\ UNCHANGED <<regTasks, issued, storeVars, acctStorageVars, oauthVars, sessionVars>>

\* get_active_account_id: the stored active_account_id as it is.
get_active_account_id(file) == load_accounts_file(file).active_account_id

\* (mutant) an id that names no account resolves to the first account.
find_account_FallsBackToFirst(file, account_id) ==
    LET accounts == load_accounts_file(file).accounts
        M(acc) == acc.id = account_id
        pos == Position([i \in 1..Len(accounts) |-> M(accounts[i])])
    IN  IF accounts = <<>> THEN None
        ELSE IF pos = 0 THEN Some(accounts[1]) ELSE Some(accounts[pos])

\* find_account: the first stored account of that id, None when there is none.
find_account(file, account_id) ==
    LET accounts == load_accounts_file(file).accounts
        M(acc) == acc.id = account_id
        pos == Position([i \in 1..Len(accounts) |-> M(accounts[i])])
    IN  IF pos = 0 THEN None ELSE Some(accounts[pos])

\* A caller looks the active account up: it reads the active id and, when
\* there is one, resolves it with find_account.
FindActiveAccount ==
    LET id == get_active_account_id(reg)
        found == IF id = None THEN None ELSE find_account(reg, id[1])
    IN  /\ lastCall.op # "find_active"
        /\ lastCall' = RegistryCall("find_active", None, FALSE, id,
                                    load_accounts_file(reg), NoUpsert, found)
        /\ UNCHANGED <<regTasks, reg, clock, issued, calls, assigned, storeVars, acctStorageVars, oauthVars, sessionVars>>

\* The account files found on disk when the registry is first used: none,
\* or one left by earlier runs (serde accepts any combination of the
\* optional fields, such as an account without created_at).
SeedAccounts ==
    << StoredAccount(101, "ChatGPT", None, Some("sk-2"),
                     Some(TokenData(Some("acct-1"), Some(<<"A", "x">>), "t0")),
                     Some(0), None, None),
       StoredAccount(102, "ApiKey", Some("home"), Some("sk-1"),
                     Some(TokenData(Some("acct-2"), Some(<<"A", "x">>), "t0")),
                     None, Some(0), Some(0)) >>

RegistryFiles == {None, write_accounts_file(AccountsFile(Some(102), SeedAccounts))}

(***************************************************************************)
(* Account store backends (auth_accounts.rs)                               *)
(***************************************************************************)
\* Paths: "W" is code_home/auth_accounts.json, "L" the legacy location that
\* resolve_code_path_for_read falls back to, "X" a path named in config.toml.
AccountPaths == {"W", "L", "X"}

\* serde_json::to_string / to_string_pretty / from_str of an AccountsFile
accounts_to_string(data) == [fmt |-> "compact", doc |-> accounts_to_json(data)]

accounts_to_string_pretty(data) == [fmt |-> "pretty", doc |-> accounts_to_json(data)]

accounts_from_str(text) ==
    IF text.fmt = "garbage" THEN [ok |-> FALSE, val |-> DefaultAccountsFile]
    ELSE [ok |-> TRUE, val |-> accounts_from_json(text.doc)]

\* An account store: the files, the keyring entry, the ephemeral map entry.
AccountStore(files, k, e) == [files |-> files, k |-> k, e |-> e]

\* crate::config::resolve_code_path_for_read for auth_accounts.json: the
\* file under code_home when it exists, otherwise the legacy location when
\* the file exists there, otherwise the path under code_home.
resolve_accounts_path_for_read(files) ==
    IF files["W"] # None THEN "W" ELSE IF files["L"] # None THEN "L" ELSE "W"

\* configured_account_store_paths: None when the table names neither read
\* paths nor a write path; the write path defaults to auth_accounts.json.
configured_account_store_paths(config) ==
    IF config = None THEN None
    ELSE IF config[1].read_paths = <<>> /\ config[1].write_path = None THEN None
    ELSE Some([ read_paths |-> config[1].read_paths,
                write_path |-> IF config[1].write_path = None THEN "W"
                               ELSE config[1].write_path[1] ])

\* Vec::retain with a set of the paths seen: first occurrences, in order.
RECURSIVE Dedup(_, _)
Dedup(paths, seen) ==
    IF paths = <<>> THEN <<>>
    ELSE IF Head(paths) \in seen THEN Dedup(Tail(paths), seen)
    ELSE <<Head(paths)>> \o Dedup(Tail(paths), seen \cup {Head(paths)})

account_store_paths(config, files) ==
    LET default_read_path == resolve_accounts_path_for_read(files)
        configured == configured_account_store_paths(config)
        paths == IF configured = None
                 THEN [read_paths |-> <<default_read_path>>, write_path |-> "W"]
                 ELSE configured[1]
        filled == IF paths.read_paths = <<>> THEN <<default_read_path>>
                  ELSE paths.read_paths
        headed == IF \E i \in 1..Len(filled) : filled[i] = paths.write_path
                  THEN filled ELSE <<paths.write_path>> \o filled
    IN  [read_paths |-> Dedup(headed, {}), write_path |-> paths.write_path]

\* read_accounts_file: a missing file is Ok(None), a file that does not
\* parse an error.
read_accounts_file(files, path) ==
    IF files[path] = None THEN Ok(None)
    ELSE LET parsed == accounts_from_str(files[path][1])
         IN  IF parsed.ok THEN Ok(Some(parsed.val)) ELSE Err("parse")

\* (mutant) a file that does not parse is passed over.
RECURSIVE scan_read_paths_SkipsUnparsable(_, _)
scan_read_paths_SkipsUnparsable(files, read_paths) ==
    IF read_paths = <<>> THEN Ok(DefaultAccountsFile)
    ELSE LET r == read_accounts_file(files, Head(read_paths))
         IN  IF IsOk(r) /\ r.val[1] # None THEN Ok(r.val[1][1])
             ELSE scan_read_paths_SkipsUnparsable(files, Tail(read_paths))

\* load_accounts_file: the loop over paths.read_paths.
RECURSIVE scan_read_paths(_, _)
scan_read_paths(files, read_paths) ==
    IF read_paths = <<>> THEN Ok(DefaultAccountsFile)
    ELSE LET r == read_accounts_file(files, Head(read_paths))
         IN  IF ~IsOk(r) THEN r
             ELSE IF r.val[1] # None THEN Ok(r.val[1][1])
             ELSE scan_read_paths(files, Tail(read_paths))

\* FileAccountsStorage::load
AccountsFileLoad(env, s) ==
    Out(scan_read_paths(s.files, account_store_paths(env.config, s.files).read_paths), s)

\* FileAccountsStorage::save, write_accounts_file: whole-file overwrite of
\* the write path; io: creating the directory or opening the file fails.
AccountsFileSave(env, s, data, io) ==
    IF io THEN Out(Err("io"), s)
    ELSE LET write_path == account_store_paths(env.config, s.files).write_path
         IN  Out(OkUnit, [s EXCEPT !.files[write_path] = Some(accounts_to_string_pretty(data))])

\* delete_file_if_exists on a path of the account store; io: remove_file
\* fails with an error other than NotFound.
delete_accounts_file_if_exists(s, path, io) ==
    IF s.files[path] = None THEN Out(Ok(FALSE), s)
    ELSE IF io THEN Out(Err("io"), s)
    ELSE Out(Ok(TRUE), [s EXCEPT !.files[path] = None])

delete_accounts_files_if_exists(env, s, io) ==
    LET paths == account_store_paths(env.config, s.files)
        legacy_path == resolve_accounts_path_for_read(s.files)
        first == delete_accounts_file_if_exists(s, paths.write_path, io)
    IN  IF ~IsOk(first.res) THEN first
        ELSE LET second == IF legacy_path # paths.write_path
                            THEN delete_accounts_file_if_exists(first.s, legacy_path, io)
                            ELSE Out(Ok(FALSE), first.s)
             IN  IF ~IsOk(second.res) THEN second
                 ELSE Out(Ok(first.res.val[1] \/ second.res.val[1]), second.s)

\* KeyringAccountsStorage::load_from_keyring; the keyring service is "up"
\* or "down" (every call fails).
accounts_load_from_keyring(env, s) ==
    IF env.keyring = "down" THEN Err("keyring")
    ELSE IF s.k = None THEN Ok(None)
    ELSE LET parsed == accounts_from_str(s.k[1])
         IN  IF parsed.ok THEN Ok(Some(parsed.val)) ELSE Err("parse")

\* KeyringAccountsStorage::load: a missing entry is the default AccountsFile.
AccountsKeyringLoad(env, s) ==
    LET r == accounts_load_from_keyring(env, s)
    IN  IF ~IsOk(r) THEN Out(r, s)
        ELSE Out(Ok(IF r.val[1] = None THEN DefaultAccountsFile ELSE r.val[1][1]), s)

\* KeyringAccountsStorage::save: the keyring write decides the result; the
\* files are removed afterwards, a failure of that is only logged.
AccountsKeyringSave(env, s, data, io) ==
    IF env.keyring = "down" THEN Out(Err("keyring"), s)
    ELSE LET saved == [s EXCEPT !.k = Some(accounts_to_string(data))]
         IN  Out(OkUnit, delete_accounts_files_if_exists(env, saved, io).s)

\* AutoAccountsStorage
AccountsAutoLoad(env, s) ==
    LET r == accounts_load_from_keyring(env, s)
    IN  IF IsOk(r) /\ r.val[1] # None THEN Out(Ok(r.val[1][1]), s)
        ELSE AccountsFileLoad(env, s)

AccountsAutoSave(env, s, data, io) ==
    LET k == AccountsKeyringSave(env, s, data, io)
    IN  IF IsOk(k.res) THEN k ELSE AccountsFileSave(env, s, data, io)

\* EphemeralAccountsStorage: the process-wide map; a save removes the files.
AccountsEphemeralLoad(s) ==
    Out(Ok(IF s.e = None THEN DefaultAccountsFile ELSE s.e[1]), s)

\* (mutant) the files are left where they are.
AccountsEphemeralSave_KeepsFiles(env, s, data, io) ==
    Out(OkUnit, [s EXCEPT !.e = Some(data)])

AccountsEphemeralSave(env, s, data, io) ==
    LET saved == [s EXCEPT !.e = Some(data)]
    IN  Out(OkUnit, delete_accounts_files_if_exists(env, saved, io).s)

\* accounts_storage_with_mode(code_home, m).load() and .save(data)
AccountsLoad(m, env, s) ==
    CASE m = "File"      -> AccountsFileLoad(env, s)
      [] m = "Keyring"   -> AccountsKeyringLoad(env, s)
      [] m = "Auto"      -> AccountsAutoLoad(env, s)
      [] m = "Ephemeral" -> AccountsEphemeralLoad(s)

AccountsSave(m, env, s, data, io) ==
    CASE m = "File"      -> AccountsFileSave(env, s, data, io)
      [] m = "Keyring"   -> AccountsKeyringSave(env, s, data, io)
      [] m = "Auto"      -> AccountsAutoSave(env, s, data, io)
      [] m = "Ephemeral" -> AccountsEphemeralSave(env, s, data, io)

\* (mutant) only the list of accounts is carried over.
migrate_accounts_store_mode_in_DropsActive(env, s, from, to, io) ==
    IF from = to THEN Out(OkUnit, s)
    ELSE LET data == AccountsLoad(from, env, s)
         IN  IF ~IsOk(data.res) THEN Out(Err(data.res.err), s)
             ELSE AccountsSave(to, env, s,
                               [data.res.val[1] EXCEPT !.active_account_id = None], io)

\* migrate_accounts_store_mode on the store s
migrate_accounts_store_mode_in(env, s, from, to, io) ==
    IF from = to THEN Out(OkUnit, s)
    ELSE LET data == AccountsLoad(from, env, s)
         IN  IF ~IsOk(data.res) THEN Out(Err(data.res.err), s)
             ELSE AccountsSave(to, env, s, data.res.val[1], io)

\* The AccountsFile that callers save; another one is found stored.
AccountsData == {AccountsFile(Some(102), SeedAccounts)}

\* The [accounts] tables of config.toml: none; a custom read path next to
\* the default write path; a custom write path and no read path.
AccountConfigs ==
    { None,
      Some([read_paths |-> <<"X">>, write_path |-> None]),
      Some([read_paths |-> <<>>, write_path |-> Some("X")]) }

\* A call on the account store: the operation, the modes and the data it
\* was given, whether file I/O failed, its result, what the `from' backend
\* loaded before it, and what the `from' and the `to' backend load after it.
StorageCall(op, from, to, data, io, res, held, kept, after) ==
    [ op |-> op, from |-> from, to |-> to, data |-> data, io |-> io, res |-> res,
      held |-> held, kept |-> kept, after |-> after ]

NoStorageCall ==
    StorageCall("none", "File", "File", None, FALSE, OkUnit, OkUnit, OkUnit, OkUnit)

AccountsStorageLoad ==
    \E m \in Modes :
        LET out == AccountsLoad(m, acctEnv, acctStore)
        IN  /\ lastSt' = StorageCall("load", m, m, None, FALSE, out.res,
                                     out.res, out.res, out.res)
            /\ UNCHANGED <<acctEnv, acctStore, storeVars, acctVars, oauthVars, sessionVars>>

AccountsStorageSave ==
    \E m \in Modes, data \in AccountsData, io \in {FALSE} :
        LET out == AccountsSave(m, acctEnv, acctStore, data, io)
            after == AccountsLoad(m, acctEnv, out.s).res
        IN  /\ acctStore' = out.s
            /\ lastSt' = StorageCall("save", m, m, Some(data), io, out.res,
                                     AccountsLoad(m, acctEnv, acctStore).res,
                                     after, after)
            /\ UNCHANGED <<acctEnv, storeVars, acctVars, oauthVars, sessionVars>>

migrate_accounts_store_mode ==
    \E from \in Modes, to \in Modes, io \in {FALSE} :
        LET out == migrate_accounts_store_mode_in(acctEnv, acctStore, from, to, io)
        IN  /\ acctStore' = out.s
            /\ lastSt' = StorageCall("migrate", from, to, None, io, out.res,
                                     AccountsLoad(from, acctEnv, acctStore).res,
                                     AccountsLoad(from, acctEnv, out.s).res,
                                     AccountsLoad(to, acctEnv, out.s).res)
            /\ UNCHANGED <<acctEnv, storeVars, acctVars, oauthVars, sessionVars>>

\* What may lie at the paths and in the keyring when the process starts:
\* nothing, an AccountsFile saved earlier, or (at the default path) text
\* that is not JSON.  The ephemeral map of a new process is empty.
AccountFilesAtStart ==
    { [p \in AccountPaths |-> CASE p = "W" -> w [] p = "L" -> l [] p = "X" -> x] :
        w \in {None, Some(Garbage),
               Some(accounts_to_string_pretty(AccountsFile(Some(102), SeedAccounts)))},
        l \in {None, Some(accounts_to_string_pretty(AccountsFile(None, <<SeedAccounts[1]>>)))},
        x \in {None, Some(accounts_to_string_pretty(AccountsFile(None, <<SeedAccounts[1]>>)))} }

AccountKeyringAtStart ==
    {None, Some(accounts_to_string(AccountsFile(None, <<SeedAccounts[1]>>)))}

AccountStorageInit ==
    /\ acctEnv \in [config : AccountConfigs, keyring : {"up", "down"}]
    /\ acctStore \in {AccountStore(f, k, None) :
                        f \in AccountFilesAtStart, k \in AccountKeyringAtStart}
    /\ lastSt = NoStorageCall

\* The [accounts] tables that name the write path among the read paths,
\* after another path.
ShadowingConfigs ==
    { Some([read_paths |-> <<"X", "W">>, write_path |-> None]),
      Some([read_paths |-> <<"W", "X">>, write_path |-> Some("X")]) }

\* upsert_api_key_account with the File backend selected: storage.load(),
\* upsert_account, the make_active tail, storage.save().
upsert_api_key_account_file ==
    \E api_key \in ApiKeys, make_active \in BOOLEAN, io \in {FALSE} :
        LET t0 == clock + 1
            loaded == AccountsFileLoad(acctEnv, acctStore).res
            new_account == StoredAccount(next_id, "ApiKey", None, Some(api_key),
                                         None, None, None, None)
            up == upsert_account(loaded.val[1], new_account, t0, 0)
            final == make_active_step(up, make_active, t0, 0)
            saved == AccountsFileSave(acctEnv, acctStore, final.data, io)
        IN  /\ calls < MaxCalls
            /\ IF ~IsOk(loaded)
               THEN /\ acctStore' = acctStore
                    /\ lastSt' = StorageCall("upsert", "File", "File", None, FALSE,
                                             loaded, loaded, loaded, loaded)
               ELSE /\ acctStore' = saved.s
                    /\ lastSt' = StorageCall("upsert", "File", "File", Some(final.data), io,
                                             Ok(final.stored), loaded,
                                             AccountsFileLoad(acctEnv, saved.s).res,
                                             AccountsFileLoad(acctEnv, saved.s).res)
            /\ clock' = t0
            /\ issued' = issued + 1
            /\ calls' = calls + 1
            /\ UNCHANGED <<regTasks, reg, lastCall, assigned, acctEnv, storeVars, oauthVars, sessionVars>>

\* The File backend under every kind of [accounts] table, with any of the
\* files present.
AccountPathsInit ==
    /\ acctEnv \in [config : AccountConfigs \cup ShadowingConfigs, keyring : {"up"}]
    /\ acctStore \in {AccountStore(f, None, None) : f \in AccountFilesAtStart}
    /\ lastSt = NoStorageCall

AccountPathsNext == upsert_api_key_account_file

AccountStorageNext ==
    \/ AccountsStorageLoad
    \/ AccountsStorageSave
    \/ migrate_accounts_store_mode

\* The account store backends are not exercised.
AccountStorageIdle ==
    /\ acctEnv = [config |-> None, keyring |-> "up"]
    /\ acctStore = AccountStore([p \in AccountPaths |-> None], None, None)
    /\ lastSt = NoStorageCall

(***************************************************************************)
(* Registry mutations called by two tasks on the same root: between the    *)
(* storage.load() and the storage.save() of a call the other task can run. *)
(***************************************************************************)
Tasks == {"u1", "u2"}

\* A task between calls; its locals once it is in a call: the mutation and
\* its argument, the AccountsFile it loaded, the account it returned.
NoTask ==
    [ pc |-> "idle", op |-> "none", arg |-> None,
      data |-> DefaultAccountsFile, ret |-> None ]

NoTasks == [t \in Tasks |-> NoTask]

\* The mutations a task makes: an upsert of an API key, a removal, a change
\* of the active account; the ids are those stored at the start, and one
\* that names no account.
TaskCalls ==
    {[op |-> "upsert_api_key", arg |-> Some(k)] : k \in ApiKeys}
      \cup {[op |-> o, arg |-> Some(i)] :
              o \in {"remove", "set_active"}, i \in {101, 102, UnknownId}}

\* lines 1-2 of each mutation: accounts_storage(code_home), storage.load()
TaskLoad(t) ==
    /\ regTasks[t].pc = "idle"
    /\ \E call \in TaskCalls :
         regTasks' = [regTasks EXCEPT ![t] =
                        [ pc |-> "loaded", op |-> call.op, arg |-> call.arg,
                          data |-> load_accounts_file(reg), ret |-> None ]]
    /\ UNCHANGED <<reg, clock, issued, calls, lastCall, assigned>>
    /\ UNCHANGED <<storeVars, acctStorageVars, oauthVars, sessionVars>>

\* the rest of the mutation: it changes the AccountsFile it loaded and
\* saves it whole
TaskSave(t) ==
    /\ regTasks[t].pc = "loaded"
    /\ LET t0 == clock + 1
           mine == regTasks[t]
           loaded == write_accounts_file(mine.data)
           out == CASE mine.op = "upsert_api_key" ->
                         LET up == upsert_account(mine.data,
                                       StoredAccount(next_id, "ApiKey", None, mine.arg,
                                                     None, None, None, None), t0, 0)
                         IN  [data |-> up.data, ret |-> Some(up.stored)]
                    [] mine.op = "remove" ->
                         LET call == remove_account_in(loaded, mine.arg[1])
                         IN  [data |-> call.data, ret |-> call.ret]
                    [] mine.op = "set_active" ->
                         LET call == set_active_account_id_in(loaded, mine.arg, t0, 0)
                         IN  [data |-> call.data, ret |-> call.ret]
       IN  /\ reg' = write_accounts_file(out.data)
           /\ regTasks' = [regTasks EXCEPT ![t] = [mine EXCEPT !.pc = "done", !.ret = out.ret]]
           /\ clock' = t0
           /\ issued' = IF mine.op = "upsert_api_key" THEN issued + 1 ELSE issued
           /\ assigned' = assigned \cup AccountIds(out.data)
    /\ UNCHANGED <<calls, lastCall>>
    /\ UNCHANGED <<storeVars, acctStorageVars, oauthVars, sessionVars>>

RegistryTasksNext == \E t \in Tasks : TaskLoad(t) \/ TaskSave(t)

RegistryInit ==
    /\ reg \in RegistryFiles
    /\ clock = 0
    /\ issued = 0
    /\ calls = 0
    /\ lastCall = NoRegistryCall
    /\ assigned = AccountIds(load_accounts_file(reg))
    /\ regTasks = NoTasks

(***************************************************************************)
(* MCP OAuth tokens (rmcp-client/src/oauth.rs)                             *)
(***************************************************************************)
\* the clock advances in steps of TickMillis, MaxTicks times at most
TickMillis == 30000
MaxTicks == 2

\* OAuthTokenResponse: access token, refresh token, expires_in in seconds.
OAuthTokenResponse(access, refresh, expires_in, scopes) ==
    [ access_token |-> access, refresh_token |-> refresh,
      expires_in |-> expires_in, scopes |-> scopes ]

StoredOAuthTokens(server_name, url, client_id, token_response, expires_at) ==
    [ server_name |-> server_name, url |-> url, client_id |-> client_id,
      token_response |-> token_response, expires_at |-> expires_at ]

\* impl PartialEq for WrappedOAuthTokenResponse: the JSON texts are compared.
token_response_eq(a, b) ==
    [fmt |-> "compact", doc |-> a] = [fmt |-> "compact", doc |-> b]

\* compute_expires_at_millis at time now
compute_expires_at_millis(response, now) ==
    IF response.expires_in = None THEN None
    ELSE Some(now + response.expires_in[1] * 1000)

\* compute_store_key: the key of the persistor's server in .credentials.json;
\* the file may hold the entry of another server too.
StoreKeys == {"srv|key", "other|key"}

FallbackTokenEntry(tokens, now) ==
    [ server_name |-> tokens.server_name, server_url |-> tokens.url,
      client_id |-> tokens.client_id,
      access_token |-> tokens.token_response.access_token,
      expires_at |-> IF tokens.expires_at # None THEN tokens.expires_at
                     ELSE compute_expires_at_millis(tokens.token_response, now),
      refresh_token |-> tokens.token_response.refresh_token,
      scopes |-> tokens.token_response.scopes ]

\* .credentials.json: absent (None), or text that parses to a map or does not.
FallbackJson(map) == Some([ok |-> TRUE, map |-> map])
FallbackGarbage == Some([ok |-> FALSE, map |-> <<>>])

\* read_fallback_file
read_fallback_file(file) ==
    IF file = None THEN Ok(None)
    ELSE IF file[1].ok THEN Ok(Some(file[1].map)) ELSE Err("parse")

\* write_fallback_file that writes an empty map like any other
write_fallback_file_KeepsEmptyFile(s, map, io) ==
    IF io THEN Out(Err("io"), s)
    ELSE Out(OkUnit, [s EXCEPT !.f = FallbackJson(map)])

\* write_fallback_file: an empty map removes the file; io: the write fails.
write_fallback_file(s, map, io) ==
    IF DOMAIN map = {}
    THEN IF s.f = None THEN Out(OkUnit, s)
         ELSE IF io THEN Out(Err("io"), s) ELSE Out(OkUnit, [s EXCEPT !.f = None])
    ELSE IF io THEN Out(Err("io"), s)
    ELSE Out(OkUnit, [s EXCEPT !.f = FallbackJson(map)])

save_oauth_tokens_to_file(s, tokens, now, io) ==
    LET read == read_fallback_file(s.f)
    IN  IF ~IsOk(read) THEN Out(read, s)
        ELSE LET store == IF read.val[1] = None THEN <<>> ELSE read.val[1][1]
                 key == "srv|key"
                 entry == FallbackTokenEntry(tokens, now)
                 inserted == [k \in DOMAIN store \cup {key} |->
                                IF k = key THEN entry ELSE store[k]]
             IN  write_fallback_file(s, inserted, io)

delete_oauth_tokens_from_file(s, key, io) ==
    LET read == read_fallback_file(s.f)
    IN  IF ~IsOk(read) THEN Out(read, s)
        ELSE IF read.val[1] = None THEN Out(Ok(FALSE), s)
        ELSE LET store == read.val[1][1]
                 removed == key \in DOMAIN store
                 rest == [k \in DOMAIN store \ {key} |-> store[k]]
             IN  IF ~removed THEN Out(Ok(FALSE), s)
                 ELSE LET w == write_fallback_file(s, rest, io)
                      IN  IF IsOk(w.res) THEN Out(Ok(TRUE), w.s) ELSE w

\* save_oauth_tokens_with_keyring; kerr: the keyring call fails.
save_oauth_tokens_with_keyring(s, tokens, kerr, io) ==
    IF kerr THEN Out(Err("keyring"), s)
    ELSE LET saved == [s EXCEPT !.k = Some([fmt |-> "compact", doc |-> tokens])]
         IN  Out(OkUnit, delete_oauth_tokens_from_file(saved, "srv|key", io).s)

save_oauth_tokens_with_keyring_with_fallback_to_file(s, tokens, now, kerr, io) ==
    LET k == save_oauth_tokens_with_keyring(s, tokens, kerr, io)
    IN  IF IsOk(k.res) THEN k ELSE save_oauth_tokens_to_file(s, tokens, now, io)

OAuthModes == {"Auto", "File", "Keyring"}

save_oauth_tokens(s, tokens, now, kerr, io) ==
    CASE s.mode = "Auto" ->
           save_oauth_tokens_with_keyring_with_fallback_to_file(s, tokens, now, kerr, io)
      [] s.mode = "File" -> save_oauth_tokens_to_file(s, tokens, now, io)
      [] s.mode = "Keyring" -> save_oauth_tokens_with_keyring(s, tokens, kerr, io)

\* delete_oauth_tokens_from_keyring_and_file
delete_oauth_tokens(s, kerr, io) ==
    IF kerr /\ s.mode \in {"Auto", "Keyring"} THEN Out(Err("keyring"), s)
    ELSE LET keyring_removed == ~kerr /\ s.k # None
             cleared == IF kerr THEN s ELSE [s EXCEPT !.k = None]
             file == delete_oauth_tokens_from_file(cleared, "srv|key", io)
         IN  IF ~IsOk(file.res) THEN file
             ELSE Out(Ok(keyring_removed \/ file.res.val[1]), file.s)

\* The persistor's server and url are fixed at construction.
ServerName == "srv"
ServerUrl == "https://srv"

\* OAuthPersistor::persist_if_needed with expires_at recomputed on every call
persist_if_needed_in_RecomputesExpiry(mgr, lastc, s, now, gerr, kerr, io) ==
    IF gerr THEN [res |-> Err("manager"), last |-> lastc, s |-> s, saves |-> 0, deletes |-> 0, del |-> OkUnit]
    ELSE IF mgr.credentials # None
    THEN LET credentials == mgr.credentials[1]
             stored == StoredOAuthTokens(ServerName, ServerUrl, mgr.client_id, credentials,
                                         compute_expires_at_millis(credentials, now))
         IN  IF lastc # Some(stored)
             THEN LET save == save_oauth_tokens(s, stored, now, kerr, io)
                  IN  IF IsOk(save.res)
                      THEN [res |-> OkUnit, last |-> Some(stored), s |-> save.s,
                            saves |-> 1, deletes |-> 0, del |-> OkUnit]
                      ELSE [res |-> save.res, last |-> lastc, s |-> save.s,
                            saves |-> 1, deletes |-> 0, del |-> OkUnit]
             ELSE [res |-> OkUnit, last |-> lastc, s |-> s, saves |-> 0, deletes |-> 0, del |-> OkUnit]
    ELSE IF lastc # None
         THEN LET del == delete_oauth_tokens(s, kerr, io)
              IN  [res |-> OkUnit, last |-> None, s |-> del.s,
                   saves |-> 0, deletes |-> 1, del |-> del.res]
         ELSE [res |-> OkUnit, last |-> None, s |-> s, saves |-> 0, deletes |-> 0, del |-> OkUnit]

\* OAuthPersistor::persist_if_needed returning the error of a failed delete
persist_if_needed_in_PropagatesDeleteError(mgr, lastc, s, now, gerr, kerr, io) ==
    IF gerr THEN [res |-> Err("manager"), last |-> lastc, s |-> s, saves |-> 0, deletes |-> 0, del |-> OkUnit]
    ELSE IF mgr.credentials # None
    THEN LET credentials == mgr.credentials[1]
             same_token == IF lastc = None THEN FALSE
                           ELSE token_response_eq(lastc[1].token_response, credentials)
             expires_at == IF same_token THEN lastc[1].expires_at
                           ELSE compute_expires_at_millis(credentials, now)
             stored == StoredOAuthTokens(ServerName, ServerUrl, mgr.client_id,
                                         credentials, expires_at)
         IN  IF lastc # Some(stored)
             THEN LET save == save_oauth_tokens(s, stored, now, kerr, io)
                  IN  IF IsOk(save.res)
                      THEN [res |-> OkUnit, last |-> Some(stored), s |-> save.s,
                            saves |-> 1, deletes |-> 0, del |-> OkUnit]
                      ELSE [res |-> save.res, last |-> lastc, s |-> save.s,
                            saves |-> 1, deletes |-> 0, del |-> OkUnit]
             ELSE [res |-> OkUnit, last |-> lastc, s |-> s, saves |-> 0, deletes |-> 0, del |-> OkUnit]
    ELSE IF lastc # None
         THEN LET del == delete_oauth_tokens(s, kerr, io)
              IN  [res |-> IF IsOk(del.res) THEN OkUnit ELSE del.res,
                   last |-> IF IsOk(del.res) THEN None ELSE lastc, s |-> del.s,
                   saves |-> 0, deletes |-> 1, del |-> del.res]
         ELSE [res |-> OkUnit, last |-> None, s |-> s, saves |-> 0, deletes |-> 0, del |-> OkUnit]

\* OAuthPersistor::persist_if_needed: the manager's answer mgr (gerr: it
\* fails), last_credentials lastc, the store s, the time now; saves and
\* deletes count the calls of save_oauth_tokens and delete_oauth_tokens.
persist_if_needed_in(mgr, lastc, s, now, gerr, kerr, io) ==
    IF gerr THEN [res |-> Err("manager"), last |-> lastc, s |-> s, saves |-> 0, deletes |-> 0, del |-> OkUnit]
    ELSE IF mgr.credentials # None
    THEN LET credentials == mgr.credentials[1]
             same_token == IF lastc = None THEN FALSE
                           ELSE token_response_eq(lastc[1].token_response, credentials)
             expires_at == IF same_token THEN lastc[1].expires_at
                           ELSE compute_expires_at_millis(credentials, now)
             stored == StoredOAuthTokens(ServerName, ServerUrl, mgr.client_id,
                                         credentials, expires_at)
         IN  IF lastc # Some(stored)
             THEN LET save == save_oauth_tokens(s, stored, now, kerr, io)
                  IN  IF IsOk(save.res)
                      THEN [res |-> OkUnit, last |-> Some(stored), s |-> save.s,
                            saves |-> 1, deletes |-> 0, del |-> OkUnit]
                      ELSE [res |-> save.res, last |-> lastc, s |-> save.s,
                            saves |-> 1, deletes |-> 0, del |-> OkUnit]
             ELSE [res |-> OkUnit, last |-> lastc, s |-> s, saves |-> 0, deletes |-> 0, del |-> OkUnit]
    ELSE IF lastc # None
         THEN LET del == delete_oauth_tokens(s, kerr, io)
              IN  [res |-> OkUnit, last |-> None, s |-> del.s,
                   saves |-> 0, deletes |-> 1, del |-> del.res]
         ELSE [res |-> OkUnit, last |-> None, s |-> s, saves |-> 0, deletes |-> 0, del |-> OkUnit]

\* What the authorization manager can hold: a client id and maybe a token.
TokenA == OAuthTokenResponse("a1", Some("r1"), Some(60), <<"read">>)
TokenB == OAuthTokenResponse("a2", None, None, <<>>)
ManagerStates ==
    { [client_id |-> "c1", credentials |-> None],
      [client_id |-> "c1", credentials |-> Some(TokenA)],
      [client_id |-> "c1", credentials |-> Some(TokenB)],
      [client_id |-> "c2", credentials |-> Some(TokenA)] }

\* ghost: the persistor call just made (op "none" after a step of the
\* environment); seq alternates so that no call is a stuttering step.
OAuthCall(op, out, refreshes, persists) ==
    [ op |-> op, seq |-> 1 - oaCall.seq,
      res |-> out.res, saves |-> out.saves, deletes |-> out.deletes,
      del |-> out.del, refreshes |-> refreshes, persists |-> persists ]
NoOAuthCall ==
    [ op |-> "none", seq |-> 0, res |-> OkUnit, saves |-> 0, deletes |-> 0,
      del |-> OkUnit, refreshes |-> 0, persists |-> 0 ]

\* The failures a call can meet: the store's ones (kerr, io) are drawn only
\* when the manager answered, the others only when the refresh is triggered.
StoreFailures(gerr) == IF gerr THEN {FALSE} ELSE BOOLEAN

persist_if_needed ==
    \E gerr \in BOOLEAN :
    \E kerr \in StoreFailures(gerr), io \in StoreFailures(gerr) :
        LET out == persist_if_needed_in(oaMgr, oaLast, oaStore, oaNow, gerr, kerr, io)
        IN  /\ oaLast' = out.last
            /\ oaStore' = out.s
            /\ oaCall' = OAuthCall("persist", out, 0, 1)
            /\ UNCHANGED <<oaMgr, oaNow>>
            /\ UNCHANGED <<storeVars, acctVars, acctStorageVars, sessionVars, oauthProcVars>>

REFRESH_SKEW_MILLIS == 30000

\* token_needs_refresh with too narrow a window: no skew margin
token_needs_refresh_NoSkew(expires_at, now) ==
    IF expires_at = None THEN FALSE
    ELSE now >= expires_at[1]

\* token_needs_refresh at time now (the times used stay far from u64::MAX,
\* where saturating_add would matter)
token_needs_refresh(expires_at, now) ==
    IF expires_at = None THEN FALSE
    ELSE now + REFRESH_SKEW_MILLIS >= expires_at[1]

\* The outcome of a refresh_if_needed call: what persist_if_needed_in gives,
\* the manager afterwards, and the numbers of refresh_token and
\* persist_if_needed calls made.
RefreshOut(out, mgr, refreshes, persists) ==
    [ out |-> out, mgr |-> mgr, refreshes |-> refreshes, persists |-> persists ]

\* OAuthPersistor::refresh_if_needed that persists even after a failed refresh
refresh_if_needed_in_PersistsAfterFailure(mgr, lastc, s, now, rerr, refreshed, gerr, kerr, io) ==
    LET expires_at == IF lastc = None THEN None ELSE lastc[1].expires_at
        untouched == [res |-> OkUnit, last |-> lastc, s |-> s, saves |-> 0,
                      deletes |-> 0, del |-> OkUnit]
    IN  IF ~token_needs_refresh(expires_at, now) THEN RefreshOut(untouched, mgr, 0, 0)
        ELSE IF rerr
        THEN RefreshOut([persist_if_needed_in(mgr, lastc, s, now, gerr, kerr, io)
                           EXCEPT !.res = Err("refresh")], mgr, 1, 1)
        ELSE RefreshOut(persist_if_needed_in(refreshed, lastc, s, now, gerr, kerr, io),
                        refreshed, 1, 1)

\* OAuthPersistor::refresh_if_needed; rerr: the manager's refresh_token
\* fails, refreshed: what the manager holds after a successful refresh.
refresh_if_needed_in(mgr, lastc, s, now, rerr, refreshed, gerr, kerr, io) ==
    LET expires_at == IF lastc = None THEN None ELSE lastc[1].expires_at
        untouched == [res |-> OkUnit, last |-> lastc, s |-> s, saves |-> 0,
                      deletes |-> 0, del |-> OkUnit]
    IN  IF ~token_needs_refresh(expires_at, now) THEN RefreshOut(untouched, mgr, 0, 0)
        ELSE IF rerr
        THEN RefreshOut([untouched EXCEPT !.res = Err("refresh")], mgr, 1, 0)
        ELSE RefreshOut(persist_if_needed_in(refreshed, lastc, s, now, gerr, kerr, io),
                        refreshed, 1, 1)

\* The refresh is triggered in the current state.
RefreshDue ==
    token_needs_refresh(IF oaLast = None THEN None ELSE oaLast[1].expires_at, oaNow)

refresh_if_needed ==
    \E rerr \in IF RefreshDue THEN BOOLEAN ELSE {FALSE} :
    \E refreshed \in IF RefreshDue /\ ~rerr THEN ManagerStates ELSE {oaMgr} :
    \E gerr \in IF RefreshDue /\ ~rerr THEN BOOLEAN ELSE {FALSE} :
    \E kerr \in StoreFailures(~RefreshDue \/ rerr \/ gerr),
       io \in StoreFailures(~RefreshDue \/ rerr \/ gerr) :
        LET r == refresh_if_needed_in(oaMgr, oaLast, oaStore, oaNow,
                                      rerr, refreshed, gerr, kerr, io)
        IN  /\ oaMgr' = r.mgr
            /\ oaLast' = r.out.last
            /\ oaStore' = r.out.s
            /\ oaCall' = OAuthCall("refresh", r.out, r.refreshes, r.persists)
            /\ UNCHANGED oaNow
            /\ UNCHANGED <<storeVars, acctVars, acctStorageVars, sessionVars, oauthProcVars>>

\* Two tasks call the same OAuthPersistor.
Callers == {"t1", "t2"}

\* A caller between calls; its locals: the manager's answer (mgr), the
\* StoredOAuthTokens it assembled (stored), the expires_at it read (exp; kept
\* while the persist_if_needed that follows its refresh runs).
\* ghost age: "fresh" while the manager still holds what the caller fetched,
\* "old" once the manager's credentials changed after the fetch,
\* "superseded" once a call that fetched after that change has saved.
IdleCaller ==
    [ pc |-> "idle", mgr |-> [client_id |-> "c1", credentials |-> None],
      stored |-> None, exp |-> None, age |-> "fresh" ]

\* the positions at which a caller holds credentials it fetched
Fetched == {"p_lock", "p_locked", "p_saved", "p_taken"}

\* ghost: the callers after the manager's credentials changed
Aged(procs) ==
    [ d \in Callers |->
        IF procs[d].pc \in Fetched /\ procs[d].age = "fresh"
        THEN [procs[d] EXCEPT !.age = "old"] ELSE procs[d] ]

\* ghost: the callers after caller c saved what it fetched
Superseded(procs, c) ==
    [ d \in Callers |->
        IF d # c /\ procs[c].age = "fresh" /\ procs[d].age = "old"
        THEN [procs[d] EXCEPT !.age = "superseded"] ELSE procs[d] ]

\* The authorization manager obtains, replaces or drops its credentials.
ManagerSetsCredentials ==
    /\ \E m \in ManagerStates : m # oaMgr /\ oaMgr' = m
    /\ oaCall' = NoOAuthCall
    /\ oaProc' = Aged(oaProc)
    /\ UNCHANGED <<oaLast, oaStore, oaNow, oaGuard>>
    /\ UNCHANGED <<storeVars, acctVars, acctStorageVars, sessionVars>>

\* SystemTime::now() advances.
Tick ==
    /\ oaNow < MaxTicks * TickMillis
    /\ oaNow' = oaNow + TickMillis
    /\ oaCall' = NoOAuthCall
    /\ UNCHANGED <<oaMgr, oaLast, oaStore>>
    /\ UNCHANGED <<storeVars, acctVars, acctStorageVars, sessionVars, oauthProcVars>>

NoCallers ==
    /\ oaProc = [c \in Callers |-> IdleCaller]
    /\ oaGuard = {}

\* .credentials.json holding the entry of another server only
OtherServerFile ==
    FallbackJson([k \in {"other|key"} |->
        FallbackTokenEntry(
            StoredOAuthTokens("other", "https://other", "c9", TokenB, None), 0)])

\* OAuthPersistor::new with no initial credentials; .credentials.json is
\* absent or holds another server's entry.
OAuthInit ==
    /\ oaMgr \in ManagerStates
    /\ oaLast = None
    /\ oaStore \in [mode : OAuthModes, k : {None}, f : {None, OtherServerFile}]
    /\ oaNow = 0
    /\ oaCall = NoOAuthCall
    /\ NoCallers

OAuthNext == persist_if_needed \/ refresh_if_needed \/ ManagerSetsCredentials \/ Tick

(***************************************************************************)
(* The MCP OAuth store called directly: load, save, delete.                *)
(***************************************************************************)
\* expires_in_from_timestamp at time now, rounding up instead of down
expires_in_from_timestamp_RoundsUp(expires_at, now) ==
    IF expires_at <= now THEN None
    ELSE Some((expires_at - now + 999) \div 1000)

\* expires_in_from_timestamp at time now
expires_in_from_timestamp(expires_at, now) ==
    IF expires_at <= now THEN None
    ELSE Some((expires_at - now) \div 1000)

refresh_expires_in_from_timestamp(tokens, now) ==
    IF tokens.expires_at = None THEN tokens
    ELSE [tokens EXCEPT !.token_response.expires_in =
            expires_in_from_timestamp(tokens.expires_at[1], now)]

\* the keyring entry: absent, text that is no StoredOAuthTokens, or the
\* compact JSON of one
KeyringGarbage == Some([fmt |-> "garbage", doc |-> <<>>])

\* load_oauth_tokens_from_keyring; kerr: the keyring call fails.
load_oauth_tokens_from_keyring(s, now, kerr) ==
    IF kerr THEN Err("keyring")
    ELSE IF s.k = None THEN Ok(None)
    ELSE IF s.k[1].fmt # "compact" THEN Err("parse")
    ELSE Ok(Some(refresh_expires_in_from_timestamp(s.k[1].doc, now)))

\* the entries of the map whose server name and url give the wanted key
MatchingEntries(map) ==
    { k \in DOMAIN map :
        map[k].server_name = ServerName /\ map[k].server_url = ServerUrl }

\* load_oauth_tokens_from_file
load_oauth_tokens_from_file(s, now) ==
    LET read == read_fallback_file(s.f)
    IN  IF ~IsOk(read) THEN read
        ELSE IF read.val[1] = None THEN Ok(None)
        ELSE LET store == read.val[1][1]
             IN  IF MatchingEntries(store) = {} THEN Ok(None)
                 ELSE LET entry == store[CHOOSE k \in MatchingEntries(store) : TRUE]
                          stored == StoredOAuthTokens(
                                      entry.server_name, entry.server_url, entry.client_id,
                                      OAuthTokenResponse(entry.access_token,
                                                         entry.refresh_token, None,
                                                         entry.scopes),
                                      entry.expires_at)
                      IN  Ok(Some(refresh_expires_in_from_timestamp(stored, now)))

\* load_oauth_tokens_from_keyring_with_fallback_to_file that returns the
\* keyring's error
load_oauth_tokens_from_keyring_with_fallback_to_file_NoFallbackOnError(s, now, kerr) ==
    LET keyring == load_oauth_tokens_from_keyring(s, now, kerr)
    IN  IF ~IsOk(keyring) THEN [res |-> keyring, src |-> "keyring"]
        ELSE IF keyring.val[1] # None THEN [res |-> keyring, src |-> "keyring"]
        ELSE [res |-> load_oauth_tokens_from_file(s, now), src |-> "file"]

\* load_oauth_tokens_from_keyring_with_fallback_to_file; src: the backend
\* that gave the result
load_oauth_tokens_from_keyring_with_fallback_to_file(s, now, kerr) ==
    LET keyring == load_oauth_tokens_from_keyring(s, now, kerr)
    IN  IF IsOk(keyring) /\ keyring.val[1] # None
        THEN [res |-> keyring, src |-> "keyring"]
        ELSE [res |-> load_oauth_tokens_from_file(s, now), src |-> "file"]

load_oauth_tokens(s, now, kerr) ==
    CASE s.mode = "Auto" ->
           load_oauth_tokens_from_keyring_with_fallback_to_file(s, now, kerr)
      [] s.mode = "File" -> [res |-> load_oauth_tokens_from_file(s, now), src |-> "file"]
      [] s.mode = "Keyring" ->
           [res |-> load_oauth_tokens_from_keyring(s, now, kerr), src |-> "keyring"]

\* ghost: the store call just made; seq alternates so that no call is a
\* stuttering step.
OAuthStoreCall(op, kerr, io, res, src) ==
    [ op |-> op, seq |-> 1 - oaCall.seq, kerr |-> kerr, io |-> io,
      res |-> res, src |-> src ]

LoadTokens ==
    \E kerr \in BOOLEAN :
        LET load == load_oauth_tokens(oaStore, oaNow, kerr)
        IN  /\ oaCall' = OAuthStoreCall("load", kerr, FALSE, load.res, load.src)
            /\ UNCHANGED <<oaMgr, oaLast, oaStore, oaNow, oauthProcVars>>
            /\ UNCHANGED <<storeVars, acctVars, acctStorageVars, sessionVars>>

\* The tokens handed to save_oauth_tokens: without expires_at, and with one
\* that is no whole number of seconds away.
SavedTokens ==
    { StoredOAuthTokens(ServerName, ServerUrl, "c1", TokenB, None),
      StoredOAuthTokens(ServerName, ServerUrl, "c1", TokenA, Some(oaNow + 45500)) }

SaveTokens ==
    \E tokens \in SavedTokens, kerr \in BOOLEAN, io \in BOOLEAN :
        LET save == save_oauth_tokens(oaStore, tokens, oaNow, kerr, io)
        IN  /\ oaStore' = save.s
            /\ oaCall' = OAuthStoreCall("save", kerr, io, save.res, "none")
            /\ UNCHANGED <<oaMgr, oaLast, oaNow, oauthProcVars>>
            /\ UNCHANGED <<storeVars, acctVars, acctStorageVars, sessionVars>>

DeleteTokens ==
    \E kerr \in BOOLEAN, io \in BOOLEAN :
        LET del == delete_oauth_tokens(oaStore, kerr, io)
        IN  /\ oaStore' = del.s
            /\ oaCall' = OAuthStoreCall("delete", kerr, io, del.res, "none")
            /\ UNCHANGED <<oaMgr, oaLast, oaNow, oauthProcVars>>
            /\ UNCHANGED <<storeVars, acctVars, acctStorageVars, sessionVars>>

\* SystemTime::now() advances between two store calls.
StoreTick ==
    /\ oaNow < MaxTicks * TickMillis
    /\ oaNow' = oaNow + TickMillis
    /\ UNCHANGED <<oaMgr, oaLast, oaStore, oaCall, oauthProcVars>>
    /\ UNCHANGED <<storeVars, acctVars, acctStorageVars, sessionVars>>

\* The store at the start: any mode, the keyring entry absent or
\* unparsable, .credentials.json absent, unparsable or another server's.
OAuthStoreInit ==
    /\ oaMgr = [client_id |-> "c1", credentials |-> None]
    /\ oaLast = None
    /\ oaStore \in [ mode : OAuthModes, k : {None, KeyringGarbage},
                     f : {None, FallbackGarbage, OtherServerFile} ]
    /\ oaNow = 0
    /\ oaCall = NoOAuthCall
    /\ NoCallers

OAuthStoreNext == LoadTokens \/ SaveTokens \/ DeleteTokens \/ StoreTick

(***************************************************************************)
(* Concurrent callers of one OAuthPersistor: every step between two        *)
(* points where another task can run is an action of its own.              *)
(***************************************************************************)
\* The credentials OAuthPersistor::new was given (loaded from the store).
InitialCredentials ==
    StoredOAuthTokens(ServerName, ServerUrl, "c1", TokenA, Some(REFRESH_SKEW_MILLIS))

\* last_credentials.lock() that does not wait for the guard to be free
last_credentials_lock_NoWait(c) ==
    oaGuard' = oaGuard \cup {c}

\* last_credentials.lock().await: the caller goes on once no one holds the guard
last_credentials_lock(c) ==
    /\ oaGuard = {}
    /\ oaGuard' = {c}

\* the guard of last_credentials is dropped
DropGuard(c) == oaGuard' = oaGuard \ {c}

\* caller c moves to pc with the given locals
Goto(c, pc, mgr, stored, exp) ==
    oaProc' = [oaProc EXCEPT ![c] = [pc |-> pc, mgr |-> mgr, stored |-> stored,
                                      exp |-> exp, age |-> @.age]]

Return(c) == oaProc' = [oaProc EXCEPT ![c] = IdleCaller]

\* persist_if_needed, lines 305-309: get_credentials under the manager's lock
\* (called from outside, or by refresh_if_needed after its refresh)
PersistGetCredentials(c) ==
    /\ oaProc[c].pc \in {"idle", "p_get"}
    /\ \E gerr \in BOOLEAN :
         IF gerr THEN Return(c) ELSE Goto(c, "p_lock", oaMgr, None, oaProc[c].exp)
    /\ UNCHANGED <<oaMgr, oaLast, oaStore, oaNow, oaCall, oaGuard>>
    /\ UNCHANGED <<storeVars, acctVars, acctStorageVars, sessionVars>>

\* persist_if_needed, lines 313 and 342: last_credentials.lock().await
PersistLock(c) ==
    /\ oaProc[c].pc = "p_lock"
    /\ last_credentials_lock(c)
    /\ Goto(c, "p_locked", oaProc[c].mgr, None, oaProc[c].exp)
    /\ UNCHANGED <<oaMgr, oaLast, oaStore, oaNow, oaCall>>
    /\ UNCHANGED <<storeVars, acctVars, acctStorageVars, sessionVars>>

\* persist_if_needed, lines 314-337: assemble the value and save it if it
\* differs from last_credentials
PersistSave(c) ==
    /\ oaProc[c].pc = "p_locked"
    /\ oaProc[c].mgr.credentials # None
    /\ LET credentials == oaProc[c].mgr.credentials[1]
           same_token == IF oaLast = None THEN FALSE
                         ELSE token_response_eq(oaLast[1].token_response, credentials)
           expires_at == IF same_token THEN oaLast[1].expires_at
                         ELSE compute_expires_at_millis(credentials, oaNow)
           stored == StoredOAuthTokens(ServerName, ServerUrl, oaProc[c].mgr.client_id,
                                       credentials, expires_at)
       IN  IF oaLast # Some(stored)
           THEN \E kerr \in BOOLEAN, io \in BOOLEAN :
                  LET save == save_oauth_tokens(oaStore, stored, oaNow, kerr, io)
                  IN  /\ oaStore' = save.s
                      /\ IF IsOk(save.res)
                         THEN /\ oaProc' = [Superseded(oaProc, c) EXCEPT ![c] =
                                                [@ EXCEPT !.pc = "p_saved",
                                                          !.stored = Some(stored)]]
                              /\ UNCHANGED oaGuard
                         ELSE Return(c) /\ DropGuard(c)
           ELSE Return(c) /\ DropGuard(c) /\ UNCHANGED oaStore
    /\ UNCHANGED <<oaMgr, oaLast, oaNow, oaCall>>
    /\ UNCHANGED <<storeVars, acctVars, acctStorageVars, sessionVars>>

\* persist_if_needed, line 338: *last_credentials = Some(stored)
PersistAssign(c) ==
    /\ oaProc[c].pc = "p_saved"
    /\ oaLast' = oaProc[c].stored
    /\ Return(c) /\ DropGuard(c)
    /\ UNCHANGED <<oaMgr, oaStore, oaNow, oaCall>>
    /\ UNCHANGED <<storeVars, acctVars, acctStorageVars, sessionVars>>

\* persist_if_needed, line 343: last_credentials.take()
PersistTake(c) ==
    /\ oaProc[c].pc = "p_locked"
    /\ oaProc[c].mgr.credentials = None
    /\ oaLast' = None
    /\ IF oaLast # None
       THEN Goto(c, "p_taken", oaProc[c].mgr, None, oaProc[c].exp) /\ UNCHANGED oaGuard
       ELSE Return(c) /\ DropGuard(c)
    /\ UNCHANGED <<oaMgr, oaStore, oaNow, oaCall>>
    /\ UNCHANGED <<storeVars, acctVars, acctStorageVars, sessionVars>>

\* persist_if_needed, lines 344-355: delete_oauth_tokens, its error logged
PersistDelete(c) ==
    /\ oaProc[c].pc = "p_taken"
    /\ \E kerr \in BOOLEAN, io \in BOOLEAN :
         oaStore' = delete_oauth_tokens(oaStore, kerr, io).s
    /\ Return(c) /\ DropGuard(c)
    /\ UNCHANGED <<oaMgr, oaLast, oaNow, oaCall>>
    /\ UNCHANGED <<storeVars, acctVars, acctStorageVars, sessionVars>>

\* refresh_if_needed, line 364: last_credentials.lock().await
RefreshLock(c) ==
    /\ oaProc[c].pc = "idle"
    /\ last_credentials_lock(c)
    /\ Goto(c, "r_locked", oaProc[c].mgr, None, None)
    /\ UNCHANGED <<oaMgr, oaLast, oaStore, oaNow, oaCall>>
    /\ UNCHANGED <<storeVars, acctVars, acctStorageVars, sessionVars>>

\* refresh_if_needed, lines 365-370: read expires_at, drop the guard, and
\* return unless token_needs_refresh
RefreshRead(c) ==
    /\ oaProc[c].pc = "r_locked"
    /\ LET expires_at == IF oaLast = None THEN None ELSE oaLast[1].expires_at
       IN  IF token_needs_refresh(expires_at, oaNow)
           THEN Goto(c, "r_due", oaProc[c].mgr, None, expires_at)
           ELSE Return(c)
    /\ DropGuard(c)
    /\ UNCHANGED <<oaMgr, oaLast, oaStore, oaNow, oaCall>>
    /\ UNCHANGED <<storeVars, acctVars, acctStorageVars, sessionVars>>

\* refresh_if_needed, lines 372-381: refresh_token under the manager's lock
RefreshToken(c) ==
    /\ oaProc[c].pc = "r_due"
    /\ \E rerr \in BOOLEAN :
         IF rerr THEN Return(c) /\ UNCHANGED oaMgr
         ELSE /\ \E refreshed \in ManagerStates : oaMgr' = refreshed
              /\ oaProc' = [(IF oaMgr' # oaMgr THEN Aged(oaProc) ELSE oaProc)
                              EXCEPT ![c] = [@ EXCEPT !.pc = "p_get"]]
    /\ UNCHANGED <<oaLast, oaStore, oaNow, oaCall, oaGuard>>
    /\ UNCHANGED <<storeVars, acctVars, acctStorageVars, sessionVars>>

CallerStep(c) ==
    \/ PersistGetCredentials(c)
    \/ PersistLock(c)
    \/ PersistSave(c)
    \/ PersistAssign(c)
    \/ PersistTake(c)
    \/ PersistDelete(c)
    \/ RefreshLock(c)
    \/ RefreshRead(c)
    \/ RefreshToken(c)

\* OAuthPersistor::new with or without initial credentials, which the
\* store then holds.
OAuthCallersInit ==
    /\ oaMgr \in ManagerStates
    /\ \E m \in OAuthModes, initial \in {None, Some(InitialCredentials)} :
         /\ oaLast = initial
         /\ oaStore =
              LET empty == [mode |-> m, k |-> None, f |-> None]
              IN  IF initial = None THEN empty
                  ELSE save_oauth_tokens(empty, initial[1], 0, FALSE, FALSE).s
    /\ oaNow = 0
    /\ oaCall = NoOAuthCall
    /\ NoCallers

\* (the clock stands still: the initial credentials are due for a refresh
\* from the start)
OAuthCallersNext ==
    \/ \E c \in Callers : CallerStep(c)
    \/ ManagerSetsCredentials

OAuthIdle ==
    /\ oaMgr = [client_id |-> "c1", credentials |-> None]
    /\ oaLast = None
    /\ oaStore = [mode |-> "File", k |-> None, f |-> None]
    /\ oaNow = 0
    /\ oaCall = NoOAuthCall
    /\ NoCallers

(***************************************************************************)
(* Chat history order keys (tui/src/chatwidget/ordering.rs)                *)
(***************************************************************************)
\* the counters stay below these, far from u64::MAX
MaxOrdinal == 2
MaxInternalKeys == 3

I32_MAX == 2147483647

\* OrderKey: compared field by field, req first (derive(Ord))
OrderKey(req, out, seq) == [req |-> req, out |-> out, seq |-> seq]

OrderKeyLess(a, b) ==
    \/ a.req < b.req
    \/ a.req = b.req /\ a.out < b.out
    \/ a.req = b.req /\ a.out = b.out /\ a.seq < b.seq

\* u64::saturating_add and saturating_sub on counters that stay below u64::MAX
saturating_add(a, b) == a + b
saturating_sub(a, b) == IF a < b THEN 0 ELSE a - b

\* OrderMeta as note_order reads it: request_ordinal and output_index
OrderMetas ==
    [ request_ordinal : 0..MaxOrdinal,
      output_index : {None, Some(0), Some(I32_MAX)} ]

\* apply_request_bias: the widget after it and the biased request index
apply_request_bias(w, provider_req) ==
    LET biased ==
            IF w.resume_provider_baseline = None /\ w.resume_expected_next_request # None
            THEN LET target == w.resume_expected_next_request[1]
                 IN  [ w EXCEPT
                         !.resume_provider_baseline = Some(provider_req),
                         !.order_request_bias =
                             IF provider_req <= target
                             THEN saturating_sub(target, provider_req) ELSE 0,
                         !.resume_expected_next_request = None ]
            ELSE w
    IN  [w |-> biased, req |-> saturating_add(provider_req, biased.order_request_bias)]

\* note_order with Some(om)
note_order_in(w, om) ==
    LET is_background_sentinel == om.output_index = Some(I32_MAX)
        is_initial_session == w.last_seen_request_index = 0
    IN  IF is_background_sentinel /\ is_initial_session THEN w
        ELSE LET b == apply_request_bias(w, om.request_ordinal)
             IN  [ b.w EXCEPT !.last_seen_request_index =
                      IF b.req > @ THEN b.req ELSE @ ]

\* next_internal_key: the widget after it and the key returned
next_internal_key_in(w) ==
    LET raised == IF w.current_request_index < w.last_seen_request_index
                  THEN [w EXCEPT !.current_request_index = w.last_seen_request_index]
                  ELSE w
        stepped == IF w.last_seen_request_index > 0 THEN w
                   ELSE [raised EXCEPT !.current_request_index = saturating_add(@, 1)]
        base == IF w.last_seen_request_index > 0 THEN w.last_seen_request_index
                ELSE stepped.current_request_index
        next_req == saturating_add(w.last_seen_request_index, 1)
        req == IF w.pending_user_prompts_for_next_turn > 0 /\ base < next_req
               THEN next_req ELSE base
        current == IF stepped.current_request_index < req THEN req
                   ELSE stepped.current_request_index
        seq == saturating_add(w.internal_seq, 1)
    IN  [ w |-> [stepped EXCEPT !.current_request_index = current, !.internal_seq = seq],
          key |-> OrderKey(req, I32_MAX, seq) ]

note_order ==
    /\ \E order_meta \in {None} \cup {Some(om) : om \in OrderMetas} :
         order' = IF order_meta = None THEN order ELSE note_order_in(order, order_meta[1])
    /\ UNCHANGED <<orderKeys, mcpAccess, mcpLast>>
    /\ UNCHANGED <<storeVars, acctVars, acctStorageVars, oauthVars>>

next_internal_key ==
    /\ order.internal_seq < MaxInternalKeys
    /\ LET out == next_internal_key_in(order)
       IN  /\ order' = out.w
           /\ orderKeys' = Append(orderKeys, out.key)
    /\ UNCHANGED <<mcpAccess, mcpLast>>
    /\ UNCHANGED <<storeVars, acctVars, acctStorageVars, oauthVars>>

\* ChatWidget::new (resume_expected_next_request: None) or a resumed session
NewChatWidget(pending, expected) ==
    [ last_seen_request_index |-> 0, current_request_index |-> 0, internal_seq |-> 0,
      pending_user_prompts_for_next_turn |-> pending, order_request_bias |-> 0,
      resume_provider_baseline |-> None, resume_expected_next_request |-> expected ]

OrderingInit ==
    /\ order \in {NewChatWidget(p, e) : p \in {0, 1}, e \in {None, Some(2)}}
    /\ orderKeys = <<>>

OrderingNext == note_order \/ next_internal_key

OrderingIdle ==
    /\ order = NewChatWidget(0, None)
    /\ orderKeys = <<>>

(***************************************************************************)
(* MCP server access for a turn (core/src/mcp/policy.rs)                   *)
(***************************************************************************)
Servers == {"alpha", "beta"}
TurnIds == {"turn-1", "turn-2"}

\* server_access_for_turn that honours a turn-scoped allow in every turn
server_access_for_turn_AnyTurn(mcp_access, turn_id, server) ==
    IF server \in mcp_access.session_deny_servers THEN "DeniedSession"
    ELSE IF server \in mcp_access.turn_allow_servers THEN "Allowed"
    ELSE IF server \in mcp_access.session_allow_servers THEN "Allowed"
    ELSE IF server \in mcp_access.style_exclude_servers THEN "DeniedStyleExclude"
    ELSE IF mcp_access.style_include_servers # {}
            /\ server \notin mcp_access.style_include_servers
    THEN "DeniedStyleIncludeOnly"
    ELSE "Allowed"

server_access_for_turn(mcp_access, turn_id, server) ==
    IF server \in mcp_access.session_deny_servers THEN "DeniedSession"
    ELSE IF mcp_access.turn_id = Some(turn_id)
            /\ server \in mcp_access.turn_allow_servers
    THEN "Allowed"
    ELSE IF server \in mcp_access.session_allow_servers THEN "Allowed"
    ELSE IF server \in mcp_access.style_exclude_servers THEN "DeniedStyleExclude"
    ELSE IF mcp_access.style_include_servers # {}
            /\ server \notin mcp_access.style_include_servers
    THEN "DeniedStyleIncludeOnly"
    ELSE "Allowed"

\* filter_tools_for_turn over the servers that list tools: those whose
\* tools are kept
filter_tools_for_turn(mcp_access, turn_id) ==
    { server \in Servers : server_access_for_turn(mcp_access, turn_id, server) = "Allowed" }

NoQuery == [turn_id |-> "none", server |-> "none", decision |-> "none", tools |-> {}]

ServerAccessForTurn ==
    /\ \E turn_id \in TurnIds, server \in Servers :
         mcpLast' = [ turn_id |-> turn_id, server |-> server,
                      decision |-> server_access_for_turn(mcpAccess, turn_id, server),
                      tools |-> filter_tools_for_turn(mcpAccess, turn_id) ]
    /\ UNCHANGED <<mcpAccess, order, orderKeys>>
    /\ UNCHANGED <<storeVars, acctVars, acctStorageVars, oauthVars>>

McpPolicyInit ==
    /\ mcpAccess \in [ turn_id : {None} \cup {Some(t) : t \in TurnIds},
                       turn_allow_servers : SUBSET Servers,
                       session_allow_servers : SUBSET Servers,
                       session_deny_servers : SUBSET Servers,
                       style_include_servers : SUBSET Servers,
                       style_exclude_servers : SUBSET Servers ]
    /\ mcpLast = NoQuery

McpPolicyNext == ServerAccessForTurn

McpPolicyIdle ==
    /\ mcpAccess = [ turn_id |-> None, turn_allow_servers |-> {},
                     session_allow_servers |-> {}, session_deny_servers |-> {},
                     style_include_servers |-> {}, style_exclude_servers |-> {} ]
    /\ mcpLast = NoQuery

SessionIdle == OrderingIdle /\ McpPolicyIdle

\* The store is not touched by the registry's calls.
StoreIdle ==
    /\ mode = "File"
    /\ fileW = None
    /\ fileL = None
    /\ kr = None
    /\ eph = None
    /\ last = NoCall
    /\ prev = NoCall

AccountsNext ==
    \/ upsert_api_key_account
    \/ upsert_chatgpt_account
    \/ remove_account
    \/ set_active_account_id
    \/ FindActiveAccount

AccountsSpecInit == RegistryInit /\ StoreIdle /\ AccountStorageIdle /\ OAuthIdle /\ SessionIdle

SpecAccounts == AccountsSpecInit /\ [][AccountsNext]_vars

\* The registry is not touched by the store's calls.
RegistryIdle ==
    /\ reg = None
    /\ clock = 0
    /\ issued = 0
    /\ calls = 0
    /\ lastCall = NoRegistryCall
    /\ assigned = {}
    /\ regTasks = NoTasks

StoreSpecInit == StoreInit /\ RegistryIdle /\ AccountStorageIdle /\ OAuthIdle /\ SessionIdle

SpecStore == StoreSpecInit /\ [][StoreNext]_vars

AccountStorageSpecInit == AccountStorageInit /\ StoreIdle /\ RegistryIdle /\ OAuthIdle /\ SessionIdle

AccountPathsSpecInit == AccountPathsInit /\ StoreIdle /\ RegistryIdle /\ OAuthIdle /\ SessionIdle

SpecAccountPaths == AccountPathsSpecInit /\ [][AccountPathsNext]_vars

SpecAccountsConcurrent == AccountsSpecInit /\ [][RegistryTasksNext]_vars

OrderingSpecInit ==
    OrderingInit /\ McpPolicyIdle /\ StoreIdle /\ RegistryIdle /\ AccountStorageIdle /\ OAuthIdle

SpecOrdering == OrderingSpecInit /\ [][OrderingNext]_vars

McpPolicySpecInit ==
    McpPolicyInit /\ OrderingIdle /\ StoreIdle /\ RegistryIdle /\ AccountStorageIdle /\ OAuthIdle

SpecMcpPolicy == McpPolicySpecInit /\ [][McpPolicyNext]_vars

SpecAccountStorage == AccountStorageSpecInit /\ [][AccountStorageNext]_vars

OAuthSpecInit == OAuthInit /\ StoreIdle /\ RegistryIdle /\ AccountStorageIdle /\ SessionIdle

SpecOAuth == OAuthSpecInit /\ [][OAuthNext]_vars

OAuthCallersSpecInit ==
    OAuthCallersInit /\ StoreIdle /\ RegistryIdle /\ AccountStorageIdle /\ SessionIdle

SpecOAuthCallers == OAuthCallersSpecInit /\ [][OAuthCallersNext]_vars

OAuthStoreSpecInit ==
    OAuthStoreInit /\ StoreIdle /\ RegistryIdle /\ AccountStorageIdle /\ SessionIdle

SpecOAuthStore == OAuthStoreSpecInit /\ [][OAuthStoreNext]_vars

(***************************************************************************)
(* Properties of the primary credential store                              *)
(***************************************************************************)
\* content holds the credential set v
Holds(content, v) ==
    /\ content # None
    /\ from_str(content[1]).ok
    /\ from_str(content[1]).val = Some(v)

\* content parses as some credential set
Parses(content) == content # None /\ from_str(content[1]).ok

\* C1: under Auto, a save whose keyring write fails writes v to auth.json
\* and returns Ok (the file system permitting); a save whose keyring write
\* succeeds leaves v in the keyring; and no save returns Ok with v stored
\* neither in the keyring nor in auth.json.
C1_AutoSaveNeverNoOp ==
    (mode = "Auto" /\ last.op = "save") =>
        LET v == AuthDotJson(last.arg)
        IN  /\ (last.kerr /\ ~last.io) =>
                 (IsOk(last.res) /\ fileW = Some(to_string_pretty(v)))
            /\ ~last.kerr => (IsOk(last.res) /\ kr = Some(to_string(v)))
            /\ IsOk(last.res) => (Holds(kr, v) \/ Holds(fileW, v))

\* An Auto save fell back: the keyring failed, the call returned Ok, and v
\* is in auth.json while the keyring holds something else.
C1_Witness ==
    /\ mode = "Auto" /\ last.op = "save" /\ last.kerr /\ IsOk(last.res)
    /\ Holds(fileW, AuthDotJson(last.arg))
    /\ ~Holds(kr, AuthDotJson(last.arg))

\* C2: under Auto, load returns the keyring's value when the keyring has one
\* (whatever the file holds); when the keyring call errors or has no entry it
\* returns what auth.json holds, without an error, and absent when there is
\* no file either.
C2_AutoLoadFallsBack ==
    (mode = "Auto" /\ last.op = "load") =>
        LET s == last.pre
        IN  /\ (~last.kerr /\ Parses(s.k)) => last.res = Ok(from_str(s.k[1]).val)
            /\ ((last.kerr \/ s.k = None) /\ Parses(s.w)) =>
                 last.res = Ok(from_str(s.w[1]).val)
            /\ ((last.kerr \/ s.k = None) /\ s.w = None /\ Parses(s.l)) =>
                 last.res = Ok(from_str(s.l[1]).val)
            /\ ((last.kerr \/ s.k = None) /\ s.w = None /\ s.l = None) =>
                 last.res = Ok(None)

\* The keyring errored on load while holding one value, auth.json held
\* another, and load returned the file's value.
C2_Witness ==
    /\ mode = "Auto" /\ last.op = "load" /\ last.kerr
    /\ Parses(fileW) /\ Parses(kr) /\ from_str(kr[1]).val # from_str(fileW[1]).val
    /\ last.res = Ok(from_str(fileW[1]).val)

\* C3: under Auto with the keyring failing on every call: after save(v) the
\* load returns v, the first delete returns true, and the delete right after
\* a delete that returned true returns false.
C3_AutoKeyringDownScenario ==
    (mode = "Auto" /\ prev.kerr /\ last.kerr /\ ~last.io) =>
        /\ (prev.op = "save" /\ IsOk(prev.res) /\ last.op = "load") =>
             last.res = Ok(Some(AuthDotJson(prev.arg)))
        /\ (prev.op = "save" /\ IsOk(prev.res) /\ last.op = "delete") =>
             last.res = Ok(TRUE)
        /\ (prev.op = "delete" /\ prev.res = Ok(TRUE) /\ last.op = "delete") =>
             last.res = Ok(FALSE)

\* C4: for every backend, a delete (the file system permitting) leaves no
\* auth.json at the write path nor at the alternate read path, and it
\* returns true exactly when this call removed a file, the keyring entry or
\* the in-memory entry.
C4_DeleteRemovesAndReports ==
    last.op = "delete" =>
        /\ ~last.io => (fileW = None /\ (last.pre.w = None => fileL = None))
        /\ (last.res = Ok(TRUE)) <=> (CurStore # last.pre)

\* C5: under Keyring, a save returns Ok whenever the keyring write succeeds
\* (also when the file cleanup fails); after an Ok save the keyring holds v
\* and, unless the cleanup failed, auth.json is gone (from the alternate read
\* path too, when the read path resolved there); the load after an Ok save
\* returns v.
C5_KeyringSaveCleansFallback ==
    mode = "Keyring" =>
        /\ last.op = "save" =>
             /\ ~last.kerr => IsOk(last.res)
             /\ IsOk(last.res) =>
                  /\ kr = Some(to_string(AuthDotJson(last.arg)))
                  /\ ~last.io => (fileW = None /\ (last.pre.w = None => fileL = None))
        /\ (prev.op = "save" /\ IsOk(prev.res) /\ last.op = "load" /\ ~last.kerr) =>
             last.res = Ok(Some(AuthDotJson(prev.arg)))

\* A Keyring save found a stale auth.json, removed it, and the load after it
\* returned the saved value.
C5_Witness ==
    /\ mode = "Keyring"
    /\ prev.op = "save" /\ IsOk(prev.res) /\ prev.pre.w = Some(Garbage)
    /\ last.op = "load" /\ last.res = Ok(Some(AuthDotJson(prev.arg)))
    /\ fileW = None

\* C6: for File, Keyring and Ephemeral, the load after an Ok save(v) returns
\* v, and the load after an Ok delete returns absent.
C6_RoundTripAndDelete ==
    (mode \in {"File", "Keyring", "Ephemeral"} /\ last.op = "load" /\ ~last.kerr) =>
        /\ (prev.op = "save" /\ IsOk(prev.res)) =>
             last.res = Ok(Some(AuthDotJson(prev.arg)))
        /\ (prev.op = "delete" /\ IsOk(prev.res)) => last.res = Ok(None)

(***************************************************************************)
(* Properties of the account registry                                      *)
(***************************************************************************)
\* the stored AccountsFile
Registry == load_accounts_file(reg)

IsUpsert(c) == c.op \in {"upsert_api_key", "upsert_chatgpt"}

\* both token sets carry an account id and an e-mail, the ids are equal and
\* the e-mails are equal once trimmed and lower-cased
SameIdentity(a, b) ==
    /\ a.account_id # None /\ b.account_id # None
    /\ a.account_id[1] = b.account_id[1]
    /\ a.id_token.email # None /\ b.id_token.email # None
    /\ normalize_email(a.id_token.email[1]) = normalize_email(b.id_token.email[1])

HasIdentity(t) == t.account_id # None /\ t.id_token.email # None

\* C7: of two upsert_chatgpt_account calls in a row, the second returns the
\* id the first returned exactly when their tokens have equal account_id and
\* e-mails equal after trimming and lower-casing, and it then adds no
\* account (one account when the registry was empty); with the same
\* account_id under another e-mail, or the same e-mail under another
\* account_id, the two calls return different ids of two stored accounts
\* (two accounts when the registry was empty).
C7_ChatgptDedup ==
    [][ (lastCall.op = "upsert_chatgpt" /\ lastCall'.op = "upsert_chatgpt"
            /\ calls' = calls + 1) =>
          LET a == lastCall.new[1].tokens[1]
              b == lastCall'.new[1].tokens[1]
              first == lastCall.ret[1]
              second == lastCall'.ret[1]
              stored == load_accounts_file(reg').accounts
              empty == lastCall.before.accounts = <<>>
          IN  /\ SameIdentity(a, b) =>
                   /\ second.id = first.id
                   /\ Len(stored) = Len(lastCall'.before.accounts)
                   /\ empty => Len(stored) = 1
              /\ ~SameIdentity(a, b) =>
                   /\ second.id # first.id
                   /\ \E i, j \in 1..Len(stored) :
                        i # j /\ stored[i].id = first.id /\ stored[j].id = second.id
                   /\ empty => Len(stored) = 2
      ]_vars

\* Two upserts into an empty registry, the second spelling the e-mail of the
\* first differently, left one account and returned its id twice.
C7_Witness ==
    /\ calls = 2 /\ lastCall.op = "upsert_chatgpt"
    /\ Len(lastCall.before.accounts) = 1 /\ Len(Registry.accounts) = 1
    /\ lastCall.before.accounts[1].tokens[1].id_token.email
         # lastCall.new[1].tokens[1].id_token.email
    /\ lastCall.ret[1].id = lastCall.before.accounts[1].id

\* C8: an upsert_chatgpt_account merges only into a stored ChatGPT-mode
\* account that carries tokens with an account id and an e-mail, and only
\* when the incoming tokens carry both too; otherwise it matches nothing and
\* appends a new account with a new id, leaving the others as they were (so
\* the same token set without e-mail, upserted twice, is stored twice).
C8_NoMergeOnPartialIdentity ==
    lastCall.op = "upsert_chatgpt" =>
        LET t == lastCall.new[1].tokens[1]
            before == lastCall.before.accounts
            stored == Registry.accounts
            idx == lastCall.up.idx
        IN  /\ idx # 0 =>
                 /\ before[idx].mode \in {"ChatGPT", "ChatgptAuthTokens"}
                 /\ before[idx].tokens # None
                 /\ HasIdentity(before[idx].tokens[1])
                 /\ HasIdentity(t)
                 /\ SameIdentity(before[idx].tokens[1], t)
            /\ ~HasIdentity(t) => idx = 0
            /\ idx = 0 =>
                 /\ Len(stored) = Len(before) + 1
                 /\ \A i \in 1..Len(before) :
                      stored[i] = before[i] /\ before[i].id # lastCall.ret[1].id
                 /\ stored[Len(stored)] = lastCall.ret[1]

\* The same token set without an e-mail was upserted a second time and was
\* appended again.
C8_Witness ==
    /\ calls = 2 /\ lastCall.op = "upsert_chatgpt"
    /\ lastCall.new[1].tokens[1].id_token.email = None
    /\ Len(lastCall.before.accounts) = 1
    /\ lastCall.before.accounts[1].tokens = lastCall.new[1].tokens
    /\ Len(Registry.accounts) = 2

\* C9: an upsert_api_key_account merges only into a stored ApiKey-mode
\* account holding exactly that key (never into a ChatGPT-mode account); of
\* two such calls in a row the second returns the id the first returned
\* exactly when the keys are equal, and then adds no account; with another
\* key the two ids differ (two accounts when the registry was empty).
C9_ApiKeyDedup ==
    [][ lastCall'.op = "upsert_api_key" =>
          LET key == lastCall'.new[1].openai_api_key[1]
              before == lastCall'.before.accounts
              idx == lastCall'.up.idx
              stored == load_accounts_file(reg').accounts
              second == lastCall'.ret[1]
          IN  /\ idx # 0 =>
                   /\ before[idx].mode = "ApiKey"
                   /\ before[idx].openai_api_key = Some(key)
                   /\ second.id = before[idx].id
                   /\ Len(stored) = Len(before)
              /\ idx = 0 =>
                   /\ \A i \in 1..Len(before) :
                        ~(before[i].mode = "ApiKey" /\ before[i].openai_api_key = Some(key))
                   /\ Len(stored) = Len(before) + 1
              /\ (lastCall.op = "upsert_api_key" /\ calls' = calls + 1) =>
                   LET first == lastCall.ret[1]
                       same == lastCall.new[1].openai_api_key[1] = key
                       empty == lastCall.before.accounts = <<>>
                   IN  /\ same => (second.id = first.id /\ Len(stored) = Len(before))
                       /\ ~same => second.id # first.id
                       /\ empty => Len(stored) = IF same THEN 1 ELSE 2
      ]_vars

\* The same key was upserted twice into an empty registry: one account, the
\* id returned twice.
C9_Witness ==
    /\ calls = 2 /\ lastCall.op = "upsert_api_key"
    /\ Len(lastCall.before.accounts) = 1 /\ Len(Registry.accounts) = 1
    /\ lastCall.before.accounts[1].openai_api_key = lastCall.new[1].openai_api_key
    /\ lastCall.ret[1].id = lastCall.before.accounts[1].id

\* the field of the incoming record when present, else the stored one
Patched(incoming, kept) == IF incoming # None THEN incoming ELSE kept

\* C10: when an upsert matches an account, upsert_account replaces, of label,
\* last_refresh, tokens, api_key and last_used_at, exactly the fields present
\* on the incoming record and keeps the others; the accounts at the other
\* positions are unchanged, by upsert_account and in the file saved.
C10_MergeIsSparsePatch ==
    (IsUpsert(lastCall) /\ lastCall.up.idx # 0) =>
        LET idx == lastCall.up.idx
            inc == lastCall.new[1]
            old == lastCall.before.accounts[idx]
            merged == lastCall.up.data.accounts
            stored == Registry.accounts
        IN  /\ merged[idx].label = Patched(inc.label, old.label)
            /\ merged[idx].last_refresh = Patched(inc.last_refresh, old.last_refresh)
            /\ merged[idx].tokens = Patched(inc.tokens, old.tokens)
            /\ merged[idx].openai_api_key = Patched(inc.openai_api_key, old.openai_api_key)
            /\ merged[idx].last_used_at = Patched(inc.last_used_at, old.last_used_at)
            /\ lastCall.up.stored = Some(merged[idx])
            /\ stored[idx].label = merged[idx].label
            /\ stored[idx].last_refresh = merged[idx].last_refresh
            /\ stored[idx].tokens = merged[idx].tokens
            /\ stored[idx].openai_api_key = merged[idx].openai_api_key
            /\ Len(merged) = Len(lastCall.before.accounts)
            /\ Len(stored) = Len(lastCall.before.accounts)
            /\ \A j \in 1..Len(stored) :
                 j # idx => (merged[j] = lastCall.before.accounts[j]
                             /\ stored[j] = lastCall.before.accounts[j])

\* An upsert without a label matched an account that had one, next to
\* another account, and the label is still stored.
C10_Witness ==
    /\ IsUpsert(lastCall) /\ lastCall.up.idx # 0
    /\ lastCall.new[1].label = None
    /\ lastCall.before.accounts[lastCall.up.idx].label # None
    /\ Registry.accounts[lastCall.up.idx].label
         = lastCall.before.accounts[lastCall.up.idx].label
    /\ Len(Registry.accounts) >= 2

\* the account a matched upsert merged into, as loaded and as saved
MergedBefore == lastCall.before.accounts[lastCall.up.idx]
MergedAfter == Registry.accounts[lastCall.up.idx]

\* C11 (as stated): a matched upsert leaves the account's id and created_at
\* as they were, whatever make_active is and whether or not created_at was
\* set.
C11_IdAndCreatedAtUnchanged ==
    (IsUpsert(lastCall) /\ lastCall.up.idx # 0) =>
        /\ MergedAfter.id = MergedBefore.id
        /\ lastCall.ret[1].id = MergedBefore.id
        /\ MergedAfter.created_at = MergedBefore.created_at
        /\ lastCall.ret[1].created_at = MergedBefore.created_at

\* C11 (amended): a matched upsert leaves the account's id as it was, and its
\* created_at as it was when it was set; an absent created_at stays absent
\* with make_active = false and is set to the time of the call, not later
\* than the new last_used_at, with make_active = true.
C11_IdKeptCreatedAtBackfilled ==
    (IsUpsert(lastCall) /\ lastCall.up.idx # 0) =>
        /\ MergedAfter.id = MergedBefore.id
        /\ lastCall.ret[1] = MergedAfter
        /\ MergedBefore.created_at # None =>
             MergedAfter.created_at = MergedBefore.created_at
        /\ (MergedBefore.created_at = None /\ ~lastCall.make_active) =>
             MergedAfter.created_at = None
        /\ (MergedBefore.created_at = None /\ lastCall.make_active) =>
             /\ MergedAfter.created_at # None
             /\ MergedAfter.last_used_at # None
             /\ MergedAfter.last_used_at[1] = clock
             /\ MergedAfter.created_at[1] \in {clock - 1, clock}

\* An upsert with make_active matched an account whose created_at was
\* absent; the account now has one.
C11_Witness ==
    /\ IsUpsert(lastCall) /\ lastCall.up.idx # 0 /\ lastCall.make_active
    /\ MergedBefore.created_at = None
    /\ MergedAfter.created_at # None

\* C12: in every step of the registry the ids of the stored accounts are
\* pairwise distinct, an upsert changes at most one of the accounts that
\* were stored (the one it merged into), and an account that enters the list
\* carries an id no account has had before, stored or removed.
C12_IdsUniqueNeverReused ==
    [][ LET before == load_accounts_file(reg).accounts
            after == load_accounts_file(reg').accounts
        IN  /\ \A i, j \in 1..Len(after) : after[i].id = after[j].id => i = j
            /\ \A j \in 1..Len(after) :
                 after[j].id \notin AccountIds(load_accounts_file(reg)) =>
                     after[j].id \notin assigned
            /\ IsUpsert(lastCall') =>
                 /\ Len(after) >= Len(before)
                 /\ Cardinality({i \in 1..Len(before) : after[i] # before[i]}) <= 1
                 /\ \A i \in 1..Len(before) :
                      after[i] # before[i] => i = lastCall'.up.idx
      ]_vars

\* An account was removed, and the next upsert created an account under an
\* id the removed one did not have.
C12_Witness ==
    /\ calls = 2 /\ IsUpsert(lastCall) /\ lastCall.up.idx = 0
    /\ \E id \in assigned :
         /\ id \notin AccountIds(Registry)
         /\ id # lastCall.ret[1].id
    /\ Len(Registry.accounts) >= 2

\* C13: an upsert with make_active sets active_account_id to the id of the
\* account it returns and sets that account's last_used_at, and when it
\* created the account the account returned has created_at = last_used_at;
\* without make_active it changes neither active_account_id nor any
\* last_used_at.
C13_ActiveStamping ==
    IsUpsert(lastCall) =>
        LET ret == lastCall.ret[1]
            idx == lastCall.up.idx
            before == lastCall.before
        IN  /\ lastCall.make_active =>
                 /\ Registry.active_account_id = Some(ret.id)
                 /\ ret.last_used_at = Some(clock)
                 /\ \E i \in 1..Len(Registry.accounts) : Registry.accounts[i] = ret
                 /\ idx = 0 => ret.created_at = ret.last_used_at
            /\ ~lastCall.make_active =>
                 /\ Registry.active_account_id = before.active_account_id
                 /\ idx = 0 => ret.last_used_at = None
                 /\ idx # 0 => ret.last_used_at = before.accounts[idx].last_used_at
                 /\ \A i \in 1..Len(before.accounts) :
                      Registry.accounts[i].last_used_at = before.accounts[i].last_used_at

\* the accounts of a list whose id is not `id', in order
Without(accounts, id) == SelectSeq(accounts, LAMBDA acc : acc.id # id)

\* C14: remove_account(id) leaves active_account_id absent when id was the
\* active id and as it was otherwise (so it clears it exactly when id was
\* active), and leaves the accounts with another id as they were, in the
\* order they had.
C14_RemoveClearsActiveIffActive ==
    lastCall.op = "remove" =>
        LET id == lastCall.id[1]
            before == lastCall.before
        IN  /\ before.active_account_id = Some(id) => Registry.active_account_id = None
            /\ before.active_account_id # Some(id) =>
                 Registry.active_account_id = before.active_account_id
            /\ Registry.accounts = Without(before.accounts, id)

\* An account that was not the active one was removed; the active id is as it
\* was and an account remains.
C14_Witness ==
    /\ lastCall.op = "remove" /\ lastCall.ret # None
    /\ lastCall.before.active_account_id # None
    /\ lastCall.before.active_account_id # lastCall.id
    /\ Registry.active_account_id = lastCall.before.active_account_id
    /\ Len(Registry.accounts) >= 1

\* C15: remove_account returns the stored account of that id and None when
\* no account has it; a second call in a row for the same id returns None
\* and leaves the stored file as the first call left it; and every call
\* saves, so that the accounts file exists after it also when nothing was
\* removed.
C15_RemoveIdempotentAlwaysSaves ==
    [][ lastCall'.op = "remove" /\ calls' = calls + 1 =>
          LET id == lastCall'.id[1]
              before == lastCall'.before.accounts
          IN  /\ reg' # None
              /\ load_accounts_file(reg') =
                   [lastCall'.before EXCEPT
                      !.accounts = Without(@, id),
                      !.active_account_id = IF @ = Some(id) THEN None ELSE @]
              /\ lastCall'.ret # None <=> \E i \in 1..Len(before) : before[i].id = id
              /\ lastCall'.ret # None =>
                   \E i \in 1..Len(before) : before[i] = lastCall'.ret[1] /\ before[i].id = id
              /\ (lastCall.op = "remove" /\ lastCall.id = lastCall'.id) =>
                   (lastCall'.ret = None /\ reg' = reg)
      ]_vars

\* The same stored id was removed twice in a row: the first call returned
\* the account, the second None.
C15_Witness ==
    /\ calls = 2 /\ lastCall.op = "remove" /\ lastCall.ret = None
    /\ lastCall.id[1] \in assigned
    /\ reg # None

\* remove_account of an unknown id was called where no accounts file
\* existed, and the file exists now.
C15_WitnessSaved ==
    /\ calls = 1 /\ lastCall.op = "remove" /\ lastCall.ret = None
    /\ lastCall.before = DefaultAccountsFile
    /\ reg = write_accounts_file(DefaultAccountsFile)

\* C16: set_active_account_id(x) stores x as active_account_id, whether x is
\* absent, names a stored account or names none, and saves. When x names a
\* stored account the call sets that account's last_used_at to the time of
\* the call and returns the account as stored; otherwise it returns None and
\* leaves every account as it was.
C16_SetActiveUnconditional ==
    lastCall.op = "set_active" =>
        LET before == lastCall.before.accounts
            hits == {i \in 1..Len(before) : lastCall.id = Some(before[i].id)}
        IN  /\ reg # None
            /\ Registry.active_account_id = lastCall.id
            /\ Len(Registry.accounts) = Len(before)
            /\ \A i \in 1..Len(before) : i \notin hits => Registry.accounts[i] = before[i]
            /\ hits = {} => lastCall.ret = None
            /\ \A i \in hits :
                 /\ lastCall.ret = Some(Registry.accounts[i])
                 /\ Registry.accounts[i].last_used_at = Some(clock)
                 /\ Registry.accounts[i].id = before[i].id
                 /\ Registry.accounts[i].tokens = before[i].tokens
                 /\ Registry.accounts[i].openai_api_key = before[i].openai_api_key
                 /\ Registry.accounts[i].label = before[i].label

\* An id that names no stored account was made active while accounts were
\* stored: it is the active id now and None was returned.
C16_Witness ==
    /\ lastCall.op = "set_active" /\ lastCall.id # None
    /\ lastCall.ret = None
    /\ Len(Registry.accounts) >= 1
    /\ Registry.active_account_id = lastCall.id
    /\ Registry.active_account_id # lastCall.before.active_account_id

\* the active id of an AccountsFile names none of its accounts
StaleActive(data) ==
    /\ data.active_account_id # None
    /\ data.active_account_id[1] \notin AccountIds(data)

ReadPaths == account_store_paths(acctEnv.config, acctStore.files).read_paths
Exists(path) == acctStore.files[path] # None
ParsesAt(path) == Exists(path) /\ accounts_from_str(acctStore.files[path][1]).ok
ContentAt(path) == accounts_from_str(acctStore.files[path][1]).val

\* C19 (as stated): the File load returns the contents of the first read
\* path that parses as an AccountsFile, also when an earlier read path exists
\* and does not parse, and the default AccountsFile, without error, when no
\* read path exists.
C19_LoadReturnsFirstThatParses ==
    (lastSt.op = "load" /\ lastSt.from = "File") =>
        LET first == Position([i \in 1..Len(ReadPaths) |-> ParsesAt(ReadPaths[i])])
        IN  /\ first # 0 => lastSt.res = Ok(ContentAt(ReadPaths[first]))
            /\ (\A i \in 1..Len(ReadPaths) : ~Exists(ReadPaths[i])) =>
                 lastSt.res = Ok(DefaultAccountsFile)

\* C19 (amended): the File load goes through the read paths in order to the
\* first one that exists: it returns that file's contents when they parse
\* as an AccountsFile and an error when they do not (later paths are not
\* read); when no read path exists it returns the default AccountsFile,
\* version 1 and no accounts, without error.
C19_LoadReturnsFirstThatExists ==
    (lastSt.op = "load" /\ lastSt.from = "File") =>
        LET first == Position([i \in 1..Len(ReadPaths) |-> Exists(ReadPaths[i])])
        IN  /\ (first # 0 /\ ParsesAt(ReadPaths[first])) =>
                 lastSt.res = Ok(ContentAt(ReadPaths[first]))
            /\ (first # 0 /\ ~ParsesAt(ReadPaths[first])) => ~IsOk(lastSt.res)
            /\ first = 0 =>
                 /\ lastSt.res = Ok(DefaultAccountsFile)
                 /\ lastSt.res.val[1].version = 1

\* A File load found no file at the first read path and returned the
\* contents of the second.
C19_Witness ==
    /\ lastSt.op = "load" /\ lastSt.from = "File"
    /\ Len(ReadPaths) >= 2
    /\ ~Exists(ReadPaths[1]) /\ ParsesAt(ReadPaths[2])
    /\ lastSt.res = Ok(ContentAt(ReadPaths[2]))
    /\ ContentAt(ReadPaths[2]) # DefaultAccountsFile

\* This step is a call of persist_if_needed in which the manager answered.
PersistStep ==
    /\ oaCall'.op = "persist"
    /\ oaCall'.seq # oaCall.seq
    /\ oaCall'.res # Err("manager")

\* The manager holds the client id and a token response equal by value to
\* the last persisted ones.
CredentialsUnchanged ==
    /\ oaMgr.credentials # None
    /\ oaLast # None
    /\ oaLast[1].client_id = oaMgr.client_id
    /\ token_response_eq(oaLast[1].token_response, oaMgr.credentials[1])

\* C20: persist_if_needed is idempotent while the credentials do not change:
\* called again with the manager returning the same client id and a token
\* response equal to the last persisted one, it returns Ok, writes nothing
\* to the store and leaves last_credentials as it was, the expires_at
\* computed at the first persist included.
C20_PersistIdempotent ==
    [][ PersistStep /\ CredentialsUnchanged =>
          /\ oaCall'.res = OkUnit
          /\ oaCall'.saves = 0 /\ oaCall'.deletes = 0
          /\ oaStore' = oaStore
          /\ oaLast' = oaLast ]_vars

\* A second persist, made after the clock advanced, with a token that has an
\* expires_in: recomputing would have given a later expires_at.
C20_Witness ==
    /\ oaCall.op = "persist" /\ oaCall.res = OkUnit /\ oaCall.saves = 0
    /\ CredentialsUnchanged
    /\ oaMgr.credentials[1].expires_in # None
    /\ oaLast[1].expires_at # compute_expires_at_millis(oaMgr.credentials[1], oaNow)
    /\ oaStore.k # None \/ oaStore.f # None

\* .credentials.json holds an entry under the persistor's key.
HasFileEntry(s) ==
    /\ s.f # None
    /\ s.f[1].ok
    /\ "srv|key" \in DOMAIN s.f[1].map

RefreshStep ==
    /\ oaCall'.op = "refresh"
    /\ oaCall'.seq # oaCall.seq

\* The last known expires_at is present and at most 30000 ms away.
InsideSkewWindow ==
    /\ oaLast # None
    /\ oaLast[1].expires_at # None
    /\ oaNow + 30000 >= oaLast[1].expires_at[1]

\* C22 as stated: refresh_if_needed calls neither refresh nor persist when
\* the last known expires_at is absent or more than 30000 ms away, and
\* otherwise makes exactly one refresh followed by exactly one
\* persist_if_needed.
C22_RefreshGating ==
    [][ RefreshStep =>
          IF InsideSkewWindow
          THEN oaCall'.refreshes = 1 /\ oaCall'.persists = 1
          ELSE oaCall'.refreshes = 0 /\ oaCall'.persists = 0 ]_vars

\* C22 amended: refresh_if_needed calls neither refresh nor persist (and
\* returns Ok, changing nothing) when the last known expires_at is absent or
\* more than 30000 ms away; otherwise it makes exactly one refresh, followed
\* by exactly one persist_if_needed when that refresh succeeded and by none
\* when it failed.
C22_RefreshGatingOnSuccess ==
    [][ RefreshStep =>
          IF InsideSkewWindow
          THEN /\ oaCall'.refreshes = 1
               /\ oaCall'.persists = IF oaCall'.res = Err("refresh") THEN 0 ELSE 1
          ELSE /\ oaCall'.refreshes = 0 /\ oaCall'.persists = 0
               /\ oaCall'.res = OkUnit
               /\ oaLast' = oaLast /\ oaStore' = oaStore /\ oaMgr' = oaMgr ]_vars

\* A refresh made exactly 30000 ms before expires_at (the manager kept its
\* token, so last_credentials still shows the expires_at the call saw): one
\* refresh, one persist.
C22_Witness ==
    /\ oaCall.op = "refresh"
    /\ oaCall.refreshes = 1 /\ oaCall.persists = 1 /\ oaCall.saves = 0
    /\ oaCall.res = OkUnit
    /\ oaLast # None
    /\ oaLast[1].expires_at = Some(oaNow + 30000)

\* C23: when refresh_if_needed triggers and the manager's refresh fails, the
\* call returns the error, persist_if_needed is not run, and last_credentials
\* and the store are as before; persist_if_needed runs only after a
\* successful refresh.
C23_FailedRefreshLeavesState ==
    [][ RefreshStep =>
          /\ oaCall'.res = Err("refresh") =>
                /\ oaCall'.refreshes = 1 /\ oaCall'.persists = 0
                /\ oaCall'.saves = 0 /\ oaCall'.deletes = 0
                /\ oaLast' = oaLast /\ oaStore' = oaStore
          /\ oaCall'.persists = 1 =>
                oaCall'.refreshes = 1 /\ oaCall'.res # Err("refresh") ]_vars

\* A due refresh failed while the manager held other credentials than the
\* persisted ones: nothing was persisted.
C23_Witness ==
    /\ oaCall.op = "refresh"
    /\ oaCall.res = Err("refresh")
    /\ oaCall.persists = 0
    /\ oaLast # None
    /\ oaMgr.credentials # Some(oaLast[1].token_response)
    /\ token_needs_refresh(oaLast[1].expires_at, oaNow)

\* The store holds the StoredOAuthTokens v: as the keyring entry, or as the
\* entry of .credentials.json under the persistor's key.
HoldsToken(s, v) ==
    \/ s.k = Some([fmt |-> "compact", doc |-> v])
    \/ /\ HasFileEntry(s)
       /\ LET e == s.f[1].map["srv|key"]
          IN  /\ e.client_id = v.client_id
              /\ e.access_token = v.token_response.access_token
              /\ e.refresh_token = v.token_response.refresh_token
              /\ v.expires_at # None => e.expires_at = v.expires_at

\* Caller c is about to read last_credentials / has updated the store or
\* last_credentials and not yet finished.
Reading(c) == oaProc[c].pc \in {"p_locked", "r_locked"}
MidUpdate(c) == oaProc[c].pc \in {"p_saved", "p_taken"}

\* At most one caller holds the guard, every caller that reads or updates
\* last_credentials holds it, and so none reads while another is mid-update.
LastCredentialsExclusive ==
    /\ Cardinality(oaGuard) <= 1
    /\ \A c \in Callers : Reading(c) \/ MidUpdate(c) => c \in oaGuard
    /\ \A c \in Callers : \A d \in Callers \ {c} :
          ~(MidUpdate(c) /\ (Reading(d) \/ MidUpdate(d)))

\* C24: in every interleaving of persist_if_needed and refresh_if_needed
\* calls on one OAuthPersistor, reads and updates of last_credentials are
\* mutually exclusive, and last_credentials only ever changes to None or to
\* a StoredOAuthTokens value that the assigning persist call has just stored
\* completely (so it is always the initial value, None, or such a value).
C24_LastCredentialsGuarded ==
    [][ /\ LastCredentialsExclusive'
        /\ oaLast' # oaLast =>
             \/ oaLast' = None
             \/ \E c \in oaGuard :
                  /\ oaProc[c].pc = "p_saved"
                  /\ oaProc[c].stored = oaLast'
                  /\ HoldsToken(oaStore, oaLast'[1]) ]_vars

\* One caller has saved a new value and not yet assigned it, while the other
\* waits for the guard.
C24_Witness ==
    \E c \in Callers : \E d \in Callers \ {c} :
        /\ oaProc[c].pc = "p_saved"
        /\ oaProc[c].stored # oaLast
        /\ oaProc[d].pc = "p_lock"
        /\ oaGuard = {c}

\* This step is a call of load_oauth_tokens that returned a token.
LoadStep ==
    /\ oaCall'.op = "load"
    /\ oaCall'.seq # oaCall.seq

Loaded(call) == call.op = "load" /\ IsOk(call.res) /\ call.res.val[1] # None

\* The token as it is stored in the backend src of the store s, and its
\* expires_at.
StoredIn(s, src) ==
    IF src = "keyring" THEN s.k[1].doc ELSE s.f[1].map["srv|key"]

\* expires_in b is not greater than expires_in a (None: no lifetime left)
NotGreater(b, a) == b = None \/ (a # None /\ b[1] <= a[1])

\* C25: a load at time now of a stored token with expires_at returns it with
\* expires_in = floor((expires_at - now) / 1000) when expires_at > now and
\* with no expires_in when expires_at <= now, never an error; a token
\* without expires_at is returned as stored; and of two loads of the same
\* stored token the later one never gives the greater expires_in.
C25_ExpiresInOnLoad ==
    [][ LoadStep =>
          /\ Loaded(oaCall') =>
               LET t == oaCall'.res.val[1][1]
                   e == StoredIn(oaStore, oaCall'.src).expires_at
               IN  /\ t.expires_at = e
                   /\ e # None =>
                        t.token_response.expires_in =
                          IF e[1] > oaNow THEN Some((e[1] - oaNow) \div 1000) ELSE None
                   /\ e = None =>
                        IF oaCall'.src = "keyring" THEN t = oaStore.k[1].doc
                        ELSE t.token_response.expires_in = None
                   /\ Loaded(oaCall) /\ oaCall.src = oaCall'.src =>
                        NotGreater(t.token_response.expires_in,
                                   oaCall.res.val[1][1].token_response.expires_in)
          /\ \* a stored token is returned whether or not it has expired
             /\ oaStore.mode # "File" /\ ~oaCall'.kerr
                /\ oaStore.k # None /\ oaStore.k # KeyringGarbage => Loaded(oaCall')
             /\ oaStore.mode = "File" /\ HasFileEntry(oaStore) => Loaded(oaCall') ]_vars

\* A token stored with expires_at 45500 ms ahead was loaded 30000 ms later:
\* 15500 ms were left and expires_in is 15.
C25_Witness ==
    /\ Loaded(oaCall)
    /\ oaCall.res.val[1][1].token_response.expires_in = Some(15)
    /\ oaCall.res.val[1][1].expires_at # None
    /\ oaCall.res.val[1][1].expires_at[1] % 1000 # 0

\* C25: a load after expires_at returns the token without expires_in.
C25_WitnessExpired ==
    /\ Loaded(oaCall)
    /\ oaCall.res.val[1][1].expires_at # None
    /\ oaCall.res.val[1][1].token_response.expires_in = None

\* The token that a load from .credentials.json builds from the entry under
\* the persistor's key.
FromFileEntry(s, now) ==
    LET e == s.f[1].map["srv|key"]
    IN  refresh_expires_in_from_timestamp(
            StoredOAuthTokens(e.server_name, e.server_url, e.client_id,
                              OAuthTokenResponse(e.access_token, e.refresh_token,
                                                 None, e.scopes),
                              e.expires_at),
            now)

\* C26: load_oauth_tokens in Auto mode returns the keyring's token when the
\* keyring holds one; when the keyring has no entry or the keyring call
\* fails, it returns the token of .credentials.json for the same server name
\* and url, and no error.
C26_AutoLoadFallsBackToFile ==
    [][ LoadStep /\ oaStore.mode = "Auto" =>
          /\ ~oaCall'.kerr /\ oaStore.k # None /\ oaStore.k # KeyringGarbage =>
               /\ oaCall'.src = "keyring"
               /\ oaCall'.res =
                    Ok(Some(refresh_expires_in_from_timestamp(oaStore.k[1].doc, oaNow)))
          /\ (oaCall'.kerr \/ oaStore.k = None) /\ HasFileEntry(oaStore) =>
               /\ oaCall'.src = "file"
               /\ oaCall'.res = Ok(Some(FromFileEntry(oaStore, oaNow))) ]_vars

\* The keyring call failed while the keyring and the file both held a token:
\* the file's token was returned.
C26_Witness ==
    /\ oaCall.op = "load" /\ oaCall.kerr
    /\ oaStore.mode = "Auto"
    /\ oaStore.k # None /\ oaStore.k # KeyringGarbage
    /\ HasFileEntry(oaStore)
    /\ Loaded(oaCall) /\ oaCall.src = "file"

\* This step is a call of delete_oauth_tokens.
DeleteStep ==
    /\ oaCall'.op = "delete"
    /\ oaCall'.seq # oaCall.seq

\* C27: in Auto mode a failure of the keyring's delete call does not block
\* what the file backend can do: delete_oauth_tokens still removes the entry
\* from .credentials.json and does not return the keyring error.
C27_AutoDeleteSurvivesKeyringFailure ==
    [][ /\ DeleteStep
        /\ oaStore.mode = "Auto"
        /\ oaCall'.kerr /\ ~oaCall'.io
        /\ HasFileEntry(oaStore)
        => /\ ~HasFileEntry(oaStore')
           /\ oaCall'.res = Ok(TRUE) ]_vars

\* C28: in Keyring mode a keyring failure on load or on save is returned as
\* an error; auth.json is neither read as a fallback nor written, and after
\* the failed save an existing auth.json is still in place.
C28_KeyringModePropagates ==
    (mode = "Keyring" /\ last.op \in {"load", "save"} /\ last.kerr) =>
        /\ last.res = Err("keyring")
        /\ fileW = last.pre.w /\ fileL = last.pre.l
        /\ kr = last.pre.k

\* A save in Keyring mode failed on the keyring while auth.json held a
\* credential set: the error was returned and auth.json is as before.
C28_Witness ==
    /\ mode = "Keyring" /\ last.op = "save" /\ last.kerr
    /\ Parses(fileW) /\ fileW = last.pre.w
    /\ last.res = Err("keyring")

\* C28: a load in Keyring mode failed on the keyring while auth.json held a
\* credential set: the error was returned, not the file's contents.
C28_WitnessLoad ==
    /\ mode = "Keyring" /\ last.op = "load" /\ last.kerr
    /\ Parses(fileW)
    /\ last.res = Err("keyring")

\* C29: on the Ephemeral backend no save, load or delete creates or writes
\* auth.json (neither location ever gets contents it did not have), a
\* delete removes the in-memory entry, and with the entry removed a load
\* returns absent whatever lies on disk or in the keyring.
C29_EphemeralIsolation ==
    (mode = "Ephemeral" /\ last.op # "none") =>
        /\ fileW \in {None, last.pre.w} /\ fileL \in {None, last.pre.l}
        /\ kr = last.pre.k
        /\ last.op = "delete" => eph = None
        /\ last.op = "load" /\ eph = None => last.res = Ok(None)

\* A value was saved, deleted from the map, and then loaded as absent while
\* auth.json held a credential set of an earlier run.
C29_Witness ==
    /\ mode = "Ephemeral"
    /\ prev.op = "delete" /\ prev.res = Ok(TRUE)
    /\ last.op = "load" /\ last.res = Ok(None)
    /\ Parses(fileW)

\* C30: a save on the Ephemeral backend also deletes the auth.json files of
\* the root: after it none remains at the write path or at the alternate
\* read path.
C30_EphemeralSaveDeletesFiles ==
    (mode = "Ephemeral" /\ last.op = "save" /\ IsOk(last.res)) =>
        fileW = None /\ fileL = None

\* The map .credentials.json holds (the empty one when it is absent or
\* does not parse).
FileMap(s) == IF s.f # None /\ s.f[1].ok THEN s.f[1].map ELSE <<>>

\* C31: through all file saves, keyring saves and deletes, .credentials.json
\* never exists holding an empty map: the call that removes the last entry
\* removes the file, and a call that changes the file leaves the entries of
\* other servers as they were.
C31_FallbackFileNeverEmpty ==
    [][ /\ oaStore'.f # None /\ oaStore'.f[1].ok => DOMAIN FileMap(oaStore') # {}
        /\ oaStore'.f # oaStore.f =>
             /\ \A k \in DOMAIN FileMap(oaStore) \ {"srv|key"} :
                  k \in DOMAIN FileMap(oaStore') /\ FileMap(oaStore')[k] = FileMap(oaStore)[k]
             /\ DOMAIN FileMap(oaStore') \subseteq DOMAIN FileMap(oaStore) \cup {"srv|key"}
             /\ DOMAIN FileMap(oaStore) = {"srv|key"} /\ ~HasFileEntry(oaStore')
                  => oaStore'.f = None ]_vars

\* A delete in File mode removed the only entry of .credentials.json and
\* with it the file.
C31_Witness ==
    /\ oaCall.op = "delete" /\ oaCall.res = Ok(TRUE)
    /\ oaStore.mode = "File"
    /\ oaStore.f = None

\* C31: a delete removed the server's entry and left the other server's one.
C31_WitnessOtherKept ==
    /\ oaCall.op = "delete" /\ oaCall.res = Ok(TRUE)
    /\ oaStore.mode = "File"
    /\ oaStore.f = OtherServerFile

\* C32: under Auto, with the keyring failing or working call by call, the
\* load right after a save(v) that returned Ok never returns a credential
\* set other than v: no older value left in the other backend comes back.
C32_AutoLoadAfterSaveNotStale ==
    (mode = "Auto" /\ prev.op = "save" /\ IsOk(prev.res) /\ last.op = "load") =>
        (IsOk(last.res) /\ last.res # Ok(None) => last.res = Ok(Some(AuthDotJson(prev.arg))))

\* C35: once persist_if_needed has returned from seeing the manager without
\* credentials after a value had been persisted, load_oauth_tokens for the
\* same server, url and store mode no longer returns a token, whether the
\* keyring failed during the deletion or fails during the load (the file
\* system working throughout).
C35_DeletedTokenNeverLoaded ==
    [][ PersistStep /\ oaMgr.credentials = None /\ oaLast # None
          /\ oaCall'.del # Err("io") =>
          \A kerr \in BOOLEAN :
              LET loaded == load_oauth_tokens(oaStore', oaNow, kerr).res
              IN  IsOk(loaded) => loaded = Ok(None) ]_vars

\* caller c writes the store or last_credentials in this step
Writes(c) ==
    /\ oaProc[c].pc \in {"p_locked", "p_saved", "p_taken"}
    /\ oaProc'[c] # oaProc[c]
    /\ oaStore' # oaStore \/ oaLast' # oaLast

\* C33: with persist_if_needed calls interleaving while the manager's
\* credentials change, a call that fetched older credentials never
\* overwrites what a call that fetched newer ones has persisted: no caller
\* writes the store or last_credentials after a call that fetched later,
\* past a change of the manager's credentials, has saved.
C33_OlderFetchNeverOverwrites ==
    [][ \A c \in Callers : Writes(c) => oaProc[c].age # "superseded" ]_vars

\* caller c invokes the manager's refresh_token in this step
InvokesRefresh(c) ==
    /\ oaProc[c].pc = "r_due"
    /\ oaProc'[c].pc # "r_due"

\* C34: of two refresh_if_needed calls running concurrently inside the
\* 30-second window only one invokes refresh_token for an expiry: no caller
\* invokes it for the expires_at for which the other caller, still in its
\* call, has already refreshed.
C34_OneRefreshPerExpiry ==
    [][ \A c \in Callers : InvokesRefresh(c) =>
          \A d \in Callers \ {c} :
              ~(oaProc[d].pc \in Fetched \cup {"p_get"} /\ oaProc[d].exp = oaProc[c].exp) ]_vars

\* This step is a successful migrate_accounts_store_mode between two modes.
MigrateStep ==
    /\ lastSt'.op = "migrate"
    /\ lastSt'.from # lastSt'.to
    /\ IsOk(lastSt'.res)

SaveRemovesFiles(to) ==
    \/ to \in {"Keyring", "Ephemeral"}
    \/ to = "Auto" /\ acctEnv.keyring = "up"

\* The load through `from' reads the account files: `from' is File, or Auto
\* without a keyring entry to return.
LoadReadsFiles(from) ==
    \/ from = "File"
    \/ from = "Auto" /\ (acctEnv.keyring = "down" \/ acctStore.k = None)

C38_WitnessKept ==
    /\ lastSt.op = "migrate" /\ lastSt.from = "Keyring" /\ lastSt.to = "File"
    /\ IsOk(lastSt.res)
    /\ lastSt.held.val[1].accounts # <<>>
    /\ lastSt.kept = lastSt.held
    /\ acctStore.files["W"] # None

\* C37: with the File backend, whatever [accounts] table and files there
\* are: after an upsert has returned account A, a load returns an
\* AccountsFile whose accounts contain one equal to A, and the first account
\* of A's id (the one find_account returns) is A.
C37_UpsertedAccountIsReadBack ==
    [][ lastSt'.op = "upsert" /\ IsOk(lastSt'.res) =>
          LET A == lastSt'.res.val[1]
              after == lastSt'.after
          IN  /\ IsOk(after)
              /\ LET accounts == after.val[1].accounts
                     M(acc) == acc.id = A.id
                     pos == Position([i \in 1..Len(accounts) |-> M(accounts[i])])
                 IN  /\ \E i \in 1..Len(accounts) : accounts[i] = A
                     /\ pos # 0 /\ accounts[pos] = A ]_vars

\* the AccountsFile stored once both tasks have returned
BothReturned == \A t \in Tasks : regTasks[t].pc = "done"

HasApiKey(data, api_key) ==
    \E i \in 1..Len(data.accounts) : data.accounts[i].openai_api_key = api_key

\* C36: two registry mutations running concurrently on one root do not lose
\* each other's update: once both have returned, an API key upserted by one
\* is stored unless the other removed that very account, an id removed by
\* one is not stored, and the id made active by one is the active id unless
\* the other call set the active id or removed that account.
C36_NoLostRegistryUpdate ==
    BothReturned =>
        \A t \in Tasks : \A o \in Tasks \ {t} :
            LET stored == load_accounts_file(reg)
                mine == regTasks[t]
                other == regTasks[o]
            IN  /\ mine.op = "upsert_api_key" =>
                     \/ HasApiKey(stored, mine.arg)
                     \/ other.op = "remove" /\ other.arg = Some(mine.ret[1].id)
                /\ mine.op = "remove" => mine.arg[1] \notin AccountIds(stored)
                /\ (mine.op = "set_active" /\ other.op # "set_active"
                      /\ ~(other.op = "remove" /\ other.arg = mine.arg)) =>
                     stored.active_account_id = mine.arg

\* C39: across any interleaving of note_order and next_internal_key, no
\* counter saturated, each key next_internal_key returns is strictly
\* greater (req, then out, then seq) than every key it returned before, and
\* current_request_index never decreases.
C39_InternalKeysMonotonic ==
    [][ /\ order'.current_request_index >= order.current_request_index
        /\ orderKeys' # orderKeys =>
             \A i \in 1..Len(orderKeys) :
                 OrderKeyLess(orderKeys[i], orderKeys'[Len(orderKeys')]) ]_vars

\* the turn-scoped allow applies to the query just made
TurnAllowed ==
    /\ mcpAccess.turn_id = Some(mcpLast.turn_id)
    /\ mcpLast.server \in mcpAccess.turn_allow_servers

\* C40: the decision of server_access_for_turn is that of the first rule
\* that matches, in the order: session deny (DeniedSession, whatever is
\* allowed), turn-scoped allow for the queried turn id (Allowed), session
\* allow (Allowed), style exclude (DeniedStyleExclude), a non-empty style
\* include list without the server (DeniedStyleIncludeOnly), else Allowed;
\* a turn-scoped allow recorded for another turn id grants nothing.
C40_FirstMatchingRuleDecides ==
    mcpLast.server # "none" =>
        LET s == mcpLast.server
            d == mcpLast.decision
            denied == s \in mcpAccess.session_deny_servers
            allowed == TurnAllowed \/ s \in mcpAccess.session_allow_servers
            excluded == s \in mcpAccess.style_exclude_servers
            not_included == /\ mcpAccess.style_include_servers # {}
                            /\ s \notin mcpAccess.style_include_servers
        IN  /\ denied => d = "DeniedSession"
            /\ ~denied /\ allowed => d = "Allowed"
            /\ ~denied /\ ~allowed /\ excluded => d = "DeniedStyleExclude"
            /\ ~denied /\ ~allowed /\ ~excluded /\ not_included => d = "DeniedStyleIncludeOnly"
            /\ ~denied /\ ~allowed /\ ~excluded /\ ~not_included => d = "Allowed"
            /\ (s \in mcpAccess.turn_allow_servers
                  /\ mcpAccess.turn_id # Some(mcpLast.turn_id)
                  /\ s \notin mcpAccess.session_allow_servers
                  /\ (excluded \/ not_included)) => d # "Allowed"
            /\ (s \in mcpLast.tools) = (d = "Allowed")

\* A server allowed for turn-1 only and excluded by the style was queried
\* for turn-2 and denied.
C40_Witness ==
    /\ mcpLast.server \in mcpAccess.turn_allow_servers
    /\ mcpAccess.turn_id = Some("turn-1") /\ mcpLast.turn_id = "turn-2"
    /\ mcpLast.server \in mcpAccess.style_exclude_servers
    /\ mcpLast.decision = "DeniedStyleExclude"

\* C40: a server both denied for the session and allowed for the turn and
\* the session was queried and denied.
C40_WitnessDenyWins ==
    /\ mcpLast.server \in mcpAccess.session_deny_servers
    /\ TurnAllowed
    /\ mcpLast.server \in mcpAccess.session_allow_servers
    /\ mcpLast.decision = "DeniedSession"

====
